---- MODULE Spec2Model ----
(***************************************************************************)
(* A model of the f90nml namelist parser (src/f90nml/parser.py): the token *)
(* cursor and patch writer (Parser.update_tokens), the group and variable  *)
(* loops (Parser.readstream, Parser.parse_variable), index placement       *)
(* (Parser.append_value, pad_array) and value merging (merge_values,       *)
(* merge_lists, merge_dicts).                                              *)
(*                                                                         *)
(* Python values are tagged records with the same four fields, so that any *)
(* two values can be compared:                                             *)
(*   None       [t |-> "none"]                                             *)
(*   int        [t |-> "int",  n |-> the integer]                          *)
(*   str        [t |-> "str",  s |-> the text]                             *)
(*   list       [t |-> "list", l |-> the elements]                         *)
(*   dict       [t |-> "dict", l |-> the items, in insertion order, each   *)
(*               [k |-> key, v |-> value]]                                 *)
(***************************************************************************)
EXTENDS Integers, Sequences, FiniteSets, TLC

VARIABLES
    \* ---- value merge, called on its own ----
    m_src,          \* merge_values argument src
    m_new,          \* merge_values argument new
    m_out,          \* its result, NotRun before the call
    \* ---- one Parser object and the files of a read ----
    doc,            \* the statements the input text was written from
    src,            \* the input text, as the pieces of each token
    nml_fname,      \* argument nml_fname of read: "path", a "missing" path
                    \* that cannot be opened, or a "stream"
    patch_in,       \* argument nml_patch_in of read
    patch_fname,    \* argument patch_fname of read: "None", a "path", the
                    \* "same" path as nml_fname, or a "stream"
    global_start_index,   \* Parser._global_start_index, NoIndex for None
    default_start_index,  \* Parser._default_start_index
    pfile,          \* Parser.pfile: "None", "open" or "closed"
    pfile_stream,   \* Parser.pfile is a stream the caller of read supplied
    out,            \* what has been written to pfile, piece by piece
    tokens,         \* f90lex, the list Parser.tokens iterates over
    pos,            \* how many tokens the iterator has yielded
    token,          \* Parser.token
    prior_token,    \* Parser.prior_token
    nml_patch,      \* readstream's nml_patch (the deep copy read makes)
    nmls,           \* readstream's nmls
    g_name,         \* readstream's g_name, NoToken for None
    g_vars,         \* readstream's g_vars: [vars, start_index]
    grp_patch0,     \* history: the items of grp_patch when the group began
    pv,             \* the frame of the parse_variable call in progress
    pc,             \* where read is
    err,            \* the exception read raised, "" for none
    pass,           \* 1 for the read of src, 2 for the read of its output,
                    \* 3 for a further read on the same Parser, 4 for the
                    \* read of src in lower case
    out1,           \* history: what the read before this one left in out
    nmls1,          \* history: how the read before this one ended, and nmls
    \* ---- one NamelistDiff object and its caller ----
    inputs,         \* the dicts the caller has given, as they are now
    given,          \* history: each of them as it was when it was given
    nml_diff,       \* the NamelistDiff object: unique, equal, different,
                    \* _labels, and the labels it has compared (history)
    new_diff,       \* what the last call of diff returned, None or an object
    d_exc           \* the exception the last call raised, "" for none

vars == <<m_src, m_new, m_out, doc, src, nml_fname, patch_in, patch_fname,
          global_start_index, default_start_index, pfile, pfile_stream, out,
          tokens, pos, token, prior_token, nml_patch, nmls, g_name, g_vars,
          grp_patch0, pv, pc, err, pass, out1, nmls1, inputs, given,
          nml_diff, new_diff, d_exc>>

mergeVars == <<m_src, m_new, m_out>>

diffVars == <<inputs, given, nml_diff, new_diff, d_exc>>

parserVars == <<doc, src, nml_fname, patch_in, patch_fname,
                global_start_index, default_start_index, pfile, pfile_stream,
                out, tokens, pos, token, prior_token, nml_patch, nmls, g_name,
                g_vars, grp_patch0, pv, pc, err, pass, out1, nmls1>>

----------------------------------------------------------------------------
(* Bounds *)

\* longest value list given to merge_values
MaxLen == 2
\* most values in a value list of a patched document
MaxVals == 3
\* most values a patch gives a variable
MaxPatchVals == 2
\* most assignments to the variable in a document of indexed assignments
MaxStmts == 3
\* highest index written in a document of indexed assignments
MaxIndex == 3
\* most items in a value list with repeat factors and null values
MaxItems == 3
\* most tokens between the parentheses of an index expression
MaxIndexTokens == 5
\* most assignments in a document whose names differ in letter case
MaxCaseStmts == 2
\* dicts given to one NamelistDiff and to the calls of its diff
MaxInputs == 3
\* the values of a variable in the dicts given to a NamelistDiff: 1..2
MaxDiffValue == 2

----------------------------------------------------------------------------
(* Python values *)

None == [t |-> "none", n |-> 0, s |-> "", l |-> <<>>]
IntV(i) == [t |-> "int", n |-> i, s |-> "", l |-> <<>>]
StrV(x) == [t |-> "str", n |-> 0, s |-> x, l |-> <<>>]
ListV(xs) == [t |-> "list", n |-> 0, s |-> "", l |-> xs]
DictV(items) == [t |-> "dict", n |-> 0, s |-> "", l |-> items]
Item(key, val) == [k |-> key, v |-> val]

IsList(v) == v.t = "list"
IsDict(v) == v.t = "dict"

\* a value is computed once and then used: F applied to v
With(v, F(_)) == F(v)

SeqsUpTo(S, n) == UNION { [1..k -> S] : k \in 0..n }

Max(a, b) == IF a < b THEN b ELSE a
Min(a, b) == IF a < b THEN a ELSE b

\* [None for _ in range(n)]
Nones(n) == [i \in 1..n |-> None]

\* xs.extend(None for i in range(len(xs), n))
ExtendNone(xs, n) == IF Len(xs) < n THEN xs \o Nones(n - Len(xs)) ELSE xs

\* the position of key in a dict's items, 0 when absent
RECURSIVE KeyPos(_, _, _)
KeyPos(items, key, i) ==
    IF i > Len(items) THEN 0
    ELSE IF items[i].k = key THEN i
    ELSE KeyPos(items, key, i + 1)

HasKey(items, key) == KeyPos(items, key, 1) # 0
GetKey(items, key) == items[KeyPos(items, key, 1)].v

\* d[key] = val: an existing key keeps its place, a new one goes last
SetKey(items, key, val) ==
    IF HasKey(items, key)
    THEN [items EXCEPT ![KeyPos(items, key, 1)] = Item(key, val)]
    ELSE Append(items, Item(key, val))

\* d.pop(key)
DelKey(items, key) ==
    LET p == KeyPos(items, key, 1)
    IN  IF p = 0 THEN items
        ELSE SubSeq(items, 1, p - 1) \o SubSeq(items, p + 1, Len(items))

----------------------------------------------------------------------------
(* merge_values, merge_lists, merge_dicts *)

RECURSIVE MergeValues(_, _)
RECURSIVE MergeLists(_, _)
RECURSIVE MergeDicts(_, _)
RECURSIVE MergeDictsFrom(_, _, _)

\* merge_lists without the last branch (lines 816-817): an unset element of
\* new is kept instead of the old element
MergeListsNewWins(src_l, new_l) ==
    LET n == Max(Len(src_l), Len(new_l))
        s == ExtendNone(src_l, n)
        w == ExtendNone(new_l, n)
    IN  [i \in 1..n |->
            IF IsDict(w[i]) /\ IsDict(s[i])
                THEN DictV(MergeDicts(s[i].l, w[i].l))
            ELSE IF IsList(w[i]) /\ IsList(s[i])
                THEN ListV(MergeLists(s[i].l, w[i].l))
            ELSE w[i]]

\* merge_lists: the shorter list is extended with None, then every position
\* of new is rewritten from (src[i], new[i]) and new is returned
MergeLists(src_l, new_l) ==
    LET n == Max(Len(src_l), Len(new_l))
        s == ExtendNone(src_l, n)
        w == ExtendNone(new_l, n)
    IN  [i \in 1..n |->
            IF IsDict(w[i]) /\ IsDict(s[i])
                THEN DictV(MergeDicts(s[i].l, w[i].l))
            ELSE IF IsList(w[i]) /\ IsList(s[i])
                THEN ListV(MergeLists(s[i].l, w[i].l))
            ELSE IF w[i] # None THEN w[i]
            ELSE s[i]]

\* merge_dicts, from the i-th key of patch on
MergeDictsFrom(src_d, patch_d, i) ==
    IF i > Len(patch_d) THEN src_d
    ELSE
        LET key == patch_d[i].k
            val == patch_d[i].v
            upd ==
                IF HasKey(src_d, key)
                THEN IF IsDict(GetKey(src_d, key)) /\ IsDict(val)
                     THEN SetKey(src_d, key,
                                 DictV(MergeDicts(GetKey(src_d, key).l, val.l)))
                     ELSE SetKey(src_d, key,
                                 MergeValues(GetKey(src_d, key), val))
                ELSE SetKey(src_d, key, val)
        IN  MergeDictsFrom(upd, patch_d, i + 1)

MergeDicts(src_d, patch_d) == MergeDictsFrom(src_d, patch_d, 1)

\* merge_values
MergeValues(src_v, new_v) ==
    IF IsDict(src_v) /\ IsDict(new_v)
    THEN DictV(MergeDicts(src_v.l, new_v.l))
    ELSE
        LET s == IF IsList(src_v) THEN src_v.l ELSE <<src_v>>
            w == IF IsList(new_v) THEN new_v.l ELSE <<new_v>>
        IN  ListV(MergeLists(s, w))

\* lines 512-513 and 795-798: a value that is no list becomes [value]
AsSeq(v) == IF IsList(v) THEN v.l ELSE <<v>>

\* delist
Delist(values) ==
    IF Len(values) = 0 THEN None
    ELSE IF Len(values) = 1 THEN values[1]
    ELSE ListV(values)

----------------------------------------------------------------------------
(* Tokens.  A token is a string; the text of a file is the sequence of its
   pieces, and two adjacent word pieces read back as one token. *)

NoToken == "<None>"

\* string.whitespace: the whitespace runs the documents use
WsTokens == {" ", "    ", "\n"}
\* a comment: comment_tokens is "!", the token runs to the end of its line
CommentToks == {"!c"}
Punctuation == {"&", "$", "/", "=", "%", "(", ")", ",", "*", ":"}

\* next_token[0] in self.comment_tokens
IsComment(t) == t \in CommentToks
\* next_token[0] in self.comment_tokens + whitespace
IsPadding(t) == t \in CommentToks \cup WsTokens
IsWord(t) == ~IsPadding(t) /\ t \notin Punctuation

GroupEnd == {"/", "&", "$"}
VarTrigger == {"=", "(", "%"}

\* the integers written in decimal that the documents and patches use
IntRange == 0..99
IsIntTok(t) == \E i \in IntRange : ToString(i) = t
\* int(token)
PyInt(t) == CHOOSE i \in IntRange : ToString(i) = t

\* str.lower, on the names the documents use
Lower(t) == IF t = "V" THEN "v" ELSE IF t = "X" THEN "x" ELSE IF t = "A" THEN "a" ELSE t

\* Tokenizer.parse on the pieces of one line: punctuation, whitespace runs
\* and comments are tokens of their own, adjacent word pieces are one token
RECURSIVE Tokenize(_)
Tokenize(ps) ==
    IF Len(ps) < 2 THEN ps
    ELSE IF IsWord(ps[1]) /\ IsWord(ps[2])
         THEN Tokenize(<<ps[1] \o ps[2]>> \o SubSeq(ps, 3, Len(ps)))
         ELSE <<ps[1]>> \o Tokenize(Tail(ps))

\* the lines of a text: each ends after a "\n"; a last line without one
\* is a line too
RECURSIVE LinesOf(_, _)
LinesOf(ps, line) ==
    IF ps = <<>> THEN (IF line = <<>> THEN <<>> ELSE <<line>>)
    ELSE IF Head(ps) = "\n" THEN <<line>> \o LinesOf(Tail(ps), <<>>)
         ELSE LinesOf(Tail(ps), Append(line, Head(ps)))

\* readstream, lines 267-292: f90lex is the tokens of every line, each line
\* followed by "\n"
RECURSIVE LexLines(_)
LexLines(ls) ==
    IF ls = <<>> THEN <<>>
    ELSE Tokenize(Head(ls)) \o <<"\n">> \o LexLines(Tail(ls))

Lex(text) == LexLines(LinesOf(text, <<>>))

----------------------------------------------------------------------------
(* Parser.update_tokens on a cursor [pos, token, prior, out, exc]: exc is the
   exception raised, "" for none.  A piece of out is [s |-> the text written,
   i |-> the index in f90lex of the token it is, 0 for a rendered patch
   value, -1 for the text of an assignment line added at a group's end]. *)

Piece(i) == [s |-> tokens[i], i |-> i]
Rendered(t) == [s |-> t, i |-> 0]
Appended(t) == [s |-> t, i |-> -1]

Cursor == [pos |-> pos, token |-> token, prior |-> prior_token, out |-> out,
           exc |-> ""]

\* an exception leaves the call; the first one raised is the one seen
Raise(c, e) == IF c.exc # "" THEN c ELSE [c EXCEPT !.exc = e]

\* lines 703-706: a comment token and what follows it up to the "\n" of its
\* line are buffered; lost when the tokens end before that "\n"
RECURSIVE CommentRun(_, _)
CommentRun(i, acc) ==
    IF i > Len(tokens) THEN [i |-> i, acc |-> acc, lost |-> TRUE]
    ELSE IF tokens[i] = "\n" THEN [i |-> i, acc |-> acc, lost |-> FALSE]
    ELSE CommentRun(i + 1, Append(acc, Piece(i)))

\* lines 701-719: the loop over padding, from next_token = tokens[i]
RECURSIVE ScanPadding(_, _)
ScanPadding(i, acc) ==
    IF ~IsPadding(tokens[i]) THEN [i |-> i, acc |-> acc, stop |-> "no"]
    ELSE
        With(IF pfile # "None" /\ IsComment(tokens[i])
             THEN CommentRun(i, acc)
             ELSE [i |-> i, acc |-> acc, lost |-> FALSE],
             LAMBDA r :
                IF r.lost THEN [i |-> r.i, acc |-> r.acc, stop |-> "lost"]
                ELSE With(IF pfile # "None"
                          THEN Append(r.acc, Piece(r.i)) ELSE r.acc,
                          LAMBDA acc2 :
                             IF r.i + 1 > Len(tokens)
                             THEN [i |-> r.i, acc |-> acc2, stop |-> "flush"]
                             ELSE ScanPadding(r.i + 1, acc2)))

\* pfile.write(text) of update_tokens
WriteOut(c, ps) ==
    IF pfile = "None" THEN c
    ELSE IF pfile = "closed" THEN Raise(c, "ValueError")
    ELSE [c EXCEPT !.out = c.out \o ps]

\* update_tokens with the skip test of lines 714 and 722 applied to the
\* padding as well: a skipped token takes the padding after it along
UpdateTokensSkipPadding(c, write_token, override, patch_skip) ==
    IF c.exc # "" THEN c
    ELSE IF c.pos >= Len(tokens) THEN Raise(c, "StopIteration")
    ELSE IF pfile # "None" /\ write_token /\ override = "" /\ c.token = NoToken
         THEN Raise([c EXCEPT !.pos = c.pos + 1], "TypeError")
    ELSE
        With(ScanPadding(c.pos + 1, <<>>), LAMBDA r :
        With(IF pfile # "None" /\ write_token
             THEN <<IF override # "" THEN Rendered(override)
                    ELSE [s |-> c.token, i |-> c.pos]>>
             ELSE <<>>, LAMBDA patch_value :
            IF r.stop = "lost"
                THEN Raise([c EXCEPT !.pos = Len(tokens)], "StopIteration")
            ELSE IF r.stop = "flush"
                THEN Raise(WriteOut([c EXCEPT !.pos = Len(tokens)],
                                    IF ~patch_skip THEN patch_value \o r.acc
                                    ELSE <<>>),
                           "StopIteration")
            ELSE
                With(WriteOut(c,
                        IF ~patch_skip \/ tokens[r.i] \in VarTrigger
                        THEN patch_value \o r.acc ELSE <<>>), LAMBDA w :
                    IF w.exc # "" THEN [w EXCEPT !.pos = r.i]
                    ELSE [w EXCEPT !.pos = r.i, !.token = tokens[r.i],
                                   !.prior = c.token])))

\* update_tokens(write_token, override, patch_skip), lines 690-729;
\* override "" stands for None
UpdateTokens(c, write_token, override, patch_skip) ==
    IF c.exc # "" THEN c
    ELSE IF c.pos >= Len(tokens) THEN Raise(c, "StopIteration")
    ELSE IF pfile # "None" /\ write_token /\ override = "" /\ c.token = NoToken
         THEN Raise([c EXCEPT !.pos = c.pos + 1], "TypeError")
    ELSE
        With(ScanPadding(c.pos + 1, <<>>), LAMBDA r :
        With(IF pfile # "None" /\ write_token
             THEN <<IF override # "" THEN Rendered(override)
                    ELSE [s |-> c.token, i |-> c.pos]>>
             ELSE <<>>, LAMBDA patch_value :
            IF r.stop = "lost"
                THEN Raise([c EXCEPT !.pos = Len(tokens)], "StopIteration")
            ELSE IF r.stop = "flush"
                THEN Raise(WriteOut([c EXCEPT !.pos = Len(tokens)],
                                    IF ~patch_skip THEN patch_value \o r.acc
                                    ELSE r.acc),
                           "StopIteration")
            ELSE
                With(WriteOut(c,
                        IF ~patch_skip \/ tokens[r.i] \in VarTrigger
                        THEN patch_value \o r.acc ELSE r.acc), LAMBDA w :
                    IF w.exc # "" THEN [w EXCEPT !.pos = r.i]
                    ELSE [w EXCEPT !.pos = r.i, !.token = tokens[r.i],
                                   !.prior = c.token])))

\* update_tokens()
Advance(c) == UpdateTokens(c, TRUE, "", FALSE)

----------------------------------------------------------------------------
(* Index expressions: Parser.parse_index and Parser.parse_indices.  An
   optional integer is None or IntV(i); a triplet is
   [start, end, stride]. *)

IsSet(x) == x # None
\* the truth value of an optional integer: None and 0 are false
Truthy(x) == x # None /\ x.n # 0

IndexEnd == {",", ")"}

\* the message of a ValueError parse_index raises: '{0} <rule>'.format(v_name)
IndexMsg(v_name, rule) == "ValueError: " \o v_name \o rule
\* the message of the ValueError of int(token), raised again as it is
IntMsg(t) == "ValueError: invalid literal for int() with base 10: '" \o t \o "'"

\* lines 604-613: the start index
ParseIndexStart(c0, v_name) ==
    With(Advance(c0), LAMBDA c1 :
        IF c1.exc # "" THEN [c |-> c1, v |-> None]
        ELSE IF IsIntTok(c1.token)
            THEN [c |-> Advance(c1), v |-> IntV(PyInt(c1.token))]
        ELSE IF c1.token \in IndexEnd
            THEN [c |-> Raise(c1, IndexMsg(v_name, " index cannot be empty.")), v |-> None]
        ELSE IF c1.token # ":"
            THEN [c |-> Raise(c1, IntMsg(c1.token)), v |-> None]
        ELSE [c |-> c1, v |-> None])

\* line 629 with the test written "is not None": index 0 gets its end too
ParseIndexEndAnyStart(c2, i_start, v_name) ==
    IF c2.exc # "" THEN [c |-> c2, v |-> None]
    ELSE IF c2.token = ":" THEN
        With(Advance(c2), LAMBDA c3 :
            IF c3.exc # "" THEN [c |-> c3, v |-> None]
            ELSE IF IsIntTok(c3.token)
                THEN [c |-> Advance(c3), v |-> IntV(1 + PyInt(c3.token))]
            ELSE IF c3.token = ":"
                THEN [c |-> Raise(c3, IndexMsg(v_name, " end index cannot be implicit when using stride.")),
                      v |-> None]
            ELSE IF c3.token \notin IndexEnd
                THEN [c |-> Raise(c3, IntMsg(c3.token)), v |-> None]
            ELSE [c |-> c3, v |-> None])
    ELSE IF c2.token \in IndexEnd THEN
        [c |-> c2, v |-> IF IsSet(i_start) THEN IntV(1 + i_start.n) ELSE None]
    ELSE [c |-> c2, v |-> None]

\* lines 615-630: the end index
ParseIndexEnd(c2, i_start, v_name) ==
    IF c2.exc # "" THEN [c |-> c2, v |-> None]
    ELSE IF c2.token = ":" THEN
        With(Advance(c2), LAMBDA c3 :
            IF c3.exc # "" THEN [c |-> c3, v |-> None]
            ELSE IF IsIntTok(c3.token)
                THEN [c |-> Advance(c3), v |-> IntV(1 + PyInt(c3.token))]
            ELSE IF c3.token = ":"
                THEN [c |-> Raise(c3, IndexMsg(v_name, " end index cannot be implicit when using stride.")),
                      v |-> None]
            ELSE IF c3.token \notin IndexEnd
                THEN [c |-> Raise(c3, IntMsg(c3.token)), v |-> None]
            ELSE [c |-> c3, v |-> None])
    ELSE IF c2.token \in IndexEnd THEN
        [c |-> c2, v |-> IF Truthy(i_start) THEN IntV(1 + i_start.n) ELSE None]
    ELSE [c |-> c2, v |-> None]

\* lines 632-648: the stride
ParseIndexStride(c4, v_name) ==
    IF c4.exc # "" THEN [c |-> c4, v |-> None]
    ELSE IF c4.token = ":" THEN
        With(Advance(c4), LAMBDA c5 :
            IF c5.exc # "" THEN [c |-> c5, v |-> None]
            ELSE IF ~IsIntTok(c5.token)
                THEN IF c5.token = ")"
                     THEN [c |-> Raise(c5, IndexMsg(v_name, " stride index cannot be implicit.")),
                           v |-> None]
                     ELSE [c |-> Raise(c5, IntMsg(c5.token)),
                           v |-> None]
            ELSE IF PyInt(c5.token) = 0
                THEN [c |-> Raise(c5, IndexMsg(v_name, " stride index cannot be zero.")), v |-> None]
            ELSE [c |-> Advance(c5), v |-> IntV(PyInt(c5.token))])
    ELSE [c |-> c4, v |-> None]

\* parse_index, lines 600-655
ParseIndex(c0, v_name) ==
    With(ParseIndexStart(c0, v_name), LAMBDA a :
    With(ParseIndexEnd(a.c, a.v, v_name), LAMBDA b :
    With(ParseIndexStride(b.c, v_name), LAMBDA d :
        [c |-> IF d.c.exc = "" /\ d.c.token \notin IndexEnd
               THEN Raise(d.c, IndexMsg(v_name, " index did not terminate correctly."))
               ELSE d.c,
         triplet |-> [start |-> a.v, end |-> b.v, stride |-> d.v]])))

\* parse_indices, lines 590-598
RECURSIVE ParseIndicesFrom(_, _, _)
ParseIndicesFrom(c, acc, v_name) ==
    IF c.exc = "" /\ c.token \in {",", "("}
    THEN With(ParseIndex(c, v_name), LAMBDA r :
              ParseIndicesFrom(r.c, Append(acc, r.triplet), v_name))
    ELSE [c |-> c, bounds |-> acc]

ParseIndices(c) == ParseIndicesFrom(c, <<>>, c.prior)

----------------------------------------------------------------------------
(* FIndex (f90nml/findex.py): the coordinates an index expression covers.
   [start, end, step, current, first], one entry per dimension. *)

NoIndex == [set |-> FALSE, start |-> <<>>, end |-> <<>>, step |-> <<>>,
            current |-> <<>>, first |-> <<>>]

\* FIndex(bounds, first): a missing start is 1, a missing stride 1; the
\* first-index vector is the global start index when one is configured and
\* the written start of each dimension otherwise
FIndex(bounds, global) ==
    LET st == [d \in 1..Len(bounds) |->
                 IF IsSet(bounds[d].start) THEN bounds[d].start.n ELSE 1]
    IN  [set |-> TRUE,
         start |-> st,
         end |-> [d \in 1..Len(bounds) |-> bounds[d].end],
         step |-> [d \in 1..Len(bounds) |->
                     IF IsSet(bounds[d].stride) THEN bounds[d].stride.n ELSE 1],
         current |-> st,
         first |-> [d \in 1..Len(bounds) |->
                      IF IsSet(global) THEN global ELSE bounds[d].start]]

\* the coordinate after cur, the leftmost dimension varying fastest
RECURSIVE FIndexStep(_, _, _)
FIndexStep(ix, cur, rank) ==
    IF rank = Len(cur)
       \/ ~IsSet(ix.end[rank])
       \/ cur[rank] + ix.step[rank] < ix.end[rank].n
    THEN [cur EXCEPT ![rank] = cur[rank] + ix.step[rank]]
    ELSE FIndexStep(ix, [cur EXCEPT ![rank] = ix.start[rank]], rank + 1)

\* next(v_idx): [ix, coord, stop]
FIndexNext(ix) ==
    LET n == Len(ix.current)
    IN  IF n = 0 \/ (IsSet(ix.end[n]) /\ ix.current[n] >= ix.end[n].n)
        THEN [ix |-> ix, coord |-> <<>>, stop |-> TRUE]
        ELSE [ix |-> [ix EXCEPT !.current = FIndexStep(ix, ix.current, 1)],
              coord |-> ix.current, stop |-> FALSE]

----------------------------------------------------------------------------
(* Parser.append_value and pad_array.  A list of values is a sequence; the
   offsets of a coordinate are given outermost list first. *)

Reverse(xs) == [i \in 1..Len(xs) |-> xs[Len(xs) + 1 - i]]

\* the place of offset k in a Python list of n elements, 0 for IndexError
PyIndex(n, k) ==
    IF 0 <= k /\ k < n THEN k + 1
    ELSE IF k < 0 /\ -n <= k THEN n + k + 1
    ELSE 0

\* v.extend(x for _ in range(len(v), n))
Extend(v, n, x) ==
    IF Len(v) < n THEN v \o [i \in 1..(n - Len(v)) |-> x] ELSE v

\* pad_array, lines 775-787
RECURSIVE PadArray(_, _)
PadArray(v, offs) ==
    IF Len(offs) > 1
    THEN LET w == Extend(v, offs[1] + 1, ListV(<<>>))
         IN  [i \in 1..Len(w) |-> ListV(PadArray(w[i].l, Tail(offs)))]
    ELSE Extend(v, offs[1] + 1, None)

\* lines 752-768 after pad_array: the walk down the lists and the
\* assignment; [v, ok], ok false for IndexError
RECURSIVE SetAt(_, _, _)
SetAt(v, offs, x) ==
    LET p == PyIndex(Len(v), offs[1])
    IN  IF p = 0 THEN [v |-> v, ok |-> FALSE]
        ELSE IF Len(offs) = 1 THEN [v |-> [v EXCEPT ![p] = x], ok |-> TRUE]
        ELSE LET r == SetAt(v[p].l, Tail(offs), x)
             IN  [v |-> [v EXCEPT ![p] = ListV(r.v)], ok |-> r.ok]

\* lines 736-737: v_s
StartsOf(first) ==
    [d \in 1..Len(first) |->
        IF IsSet(first[d]) THEN first[d].n ELSE default_start_index]

\* one pass of the loop of append_value, lines 733-770, with row_major and
\* sparse_arrays at their defaults (False)
AppendOne(r, next_value) ==
    IF r.exc # "" THEN r
    ELSE IF ~r.idx.set
        THEN [r EXCEPT !.vals = Append(r.vals, next_value)]
    ELSE
        LET nx == FIndexNext(r.idx)
        IN  IF nx.stop THEN [r EXCEPT !.exc = "StopIteration"]
            ELSE
                LET v_s == StartsOf(r.idx.first)
                    offs == Reverse([d \in 1..Len(v_s) |-> nx.coord[d] - v_s[d]])
                    padded == PadArray(r.vals, offs)
                    placed == SetAt(padded, offs, next_value)
                IN  IF placed.ok
                    THEN [r EXCEPT !.vals = placed.v, !.idx = nx.ix]
                    ELSE [r EXCEPT !.vals = padded, !.idx = nx.ix,
                                   !.exc = "IndexError"]

\* append_value(v_values, next_value, v_idx, n_vals): [vals, idx, exc]
RECURSIVE AppendValue(_, _, _)
AppendValue(r, next_value, n_vals) ==
    IF n_vals <= 0 THEN r
    ELSE AppendValue(AppendOne(r, next_value), next_value, n_vals - 1)

----------------------------------------------------------------------------
(* Namelist (f90nml/namelist.py): a dict whose keys are case-insensitive,
   with the start_index record of each variable; f90repr and var_strings
   render values. *)

NmlHas(items, key) == HasKey(items, Lower(key))
NmlGet(items, key) == GetKey(items, Lower(key))
NmlSet(items, key, val) == SetKey(items, Lower(key), val)

EmptyGroup == [vars |-> <<>>, start_index |-> <<>>]

\* Namelist.f90repr of an integer: its decimal digits
F90Repr(v) == IF v.t = "int" THEN ToString(v.n) ELSE v.s

\* the text "v1, v2, ..." as pieces
RECURSIVE ReprList(_)
ReprList(vals) ==
    IF vals = <<>> THEN <<>>
    ELSE IF Len(vals) = 1 THEN <<F90Repr(vals[1])>>
    ELSE <<F90Repr(vals[1]), ",", " ">> \o ReprList(Tail(vals))

\* Namelist.var_strings(v_name, v_val) of a scalar or a list of scalars: the
\* one string "name = v1, v2, ...", as pieces
VarString(v_name, v_val) ==
    <<v_name, " ", "=", " ">> \o ReprList(AsSeq(v_val))

----------------------------------------------------------------------------
(* Parser.parse_variable.  Its frame: [v_name, vals, bounds, idx, n_vals,
   has_patch, patch_values, p_idx, brk]; bounds is v_idx_bounds, n_vals 0
   stands for None, has_patch false for patch_values None, brk for the break
   of line 558. *)

NoFrame == [v_name |-> NoToken, vals |-> <<>>, bounds |-> <<>>,
            idx |-> NoIndex, n_vals |-> 0,
            has_patch |-> FALSE, patch_values |-> <<>>, p_idx |-> 0,
            brk |-> FALSE]

\* the patch of the group being read: nml_patch.get(g_name.lower(), {}),
\* which the pops of parse_variable change in nml_patch itself
GrpPatchOf(patch, name) ==
    IF HasKey(patch, Lower(name)) THEN GetKey(patch, Lower(name)).l ELSE <<>>

SetGrpPatch(patch, name, items) ==
    IF HasKey(patch, Lower(name)) THEN SetKey(patch, Lower(name), DictV(items))
    ELSE patch

\* lines 408-414: each dimension's first index is the lower of the recorded
\* and the new one; dimensions only one of the two has are kept
ReconcileFirst(p_idx, first) ==
    [d \in 1..Len(first) |->
        IF d > Len(p_idx) THEN first[d]
        ELSE IF ~IsSet(p_idx[d]) /\ ~IsSet(first[d]) THEN None
        ELSE IF ~IsSet(p_idx[d]) THEN first[d]
        ELSE IF ~IsSet(first[d]) THEN p_idx[d]
        ELSE IntV(Min(p_idx[d].n, first[d].n))]

\* lines 417-420 and 456-459: for every dimension whose new first index is
\* lower, parent[v_name] = pad + parent[v_name]
RECURSIVE ResizeFrom(_, _, _, _)
ResizeFrom(val, p_idx, first, d) ==
    IF d > Len(p_idx) \/ d > Len(first) THEN val
    ELSE IF IsSet(p_idx[d]) /\ IsSet(first[d]) /\ first[d].n < p_idx[d].n
         THEN ResizeFrom(ListV(Nones(p_idx[d].n - first[d].n) \o val.l),
                         p_idx, first, d + 1)
         ELSE ResizeFrom(val, p_idx, first, d + 1)

\* the value kept as it is when the first index gets lower
ResizeNone(val, p_idx, first) == val

Resize(val, p_idx, first) == ResizeFrom(val, p_idx, first, 1)

\* lines 399-430: the record of an indexed variable; [parent, idx, exc]
IndexedHead(parent, v_name, bounds) ==
    LET v_idx == FIndex(bounds, global_start_index)
        key == Lower(v_name)
    IN  IF HasKey(parent.start_index, key)
        THEN LET p_idx == GetKey(parent.start_index, key)
                 first == ReconcileFirst(p_idx, v_idx.first)
             IN  IF ~NmlHas(parent.vars, v_name)
                     THEN [parent |-> parent, idx |-> v_idx, exc |-> "KeyError"]
                 ELSE IF ~IsList(NmlGet(parent.vars, v_name))
                     THEN [parent |-> parent, idx |-> v_idx, exc |-> "TypeError"]
                 ELSE [parent |->
                          [vars |-> NmlSet(parent.vars, v_name,
                                       Resize(NmlGet(parent.vars, v_name),
                                              p_idx, first)),
                           start_index |-> SetKey(parent.start_index, key, first)],
                       idx |-> [v_idx EXCEPT !.first = first],
                       exc |-> ""]
        ELSE LET first == IF NmlHas(parent.vars, v_name)
                          THEN [d \in 1..Len(v_idx.first) |->
                                   IntV(default_start_index)]
                          ELSE v_idx.first
             IN  [parent |-> [parent EXCEPT
                                 !.start_index = SetKey(@, key, first)],
                  idx |-> [v_idx EXCEPT !.first = first],
                  exc |-> ""]

\* lines 445-461: an assignment without index to a variable that has a
\* start_index record; [parent, idx, exc]
PlainHead(parent, v_name) ==
    IF HasKey(parent.start_index, v_name)
    THEN LET p_start == GetKey(parent.start_index, Lower(v_name))
             v_start == [d \in 1..Len(p_start) |-> IntV(default_start_index)]
         IN  IF \E d \in 1..Len(p_start) : ~IsSet(p_start[d])
                 THEN [parent |-> parent, idx |-> NoIndex, exc |-> "TypeError"]
             ELSE IF ~NmlHas(parent.vars, v_name)
                 THEN [parent |-> parent, idx |-> NoIndex, exc |-> "KeyError"]
             ELSE IF ~IsList(NmlGet(parent.vars, v_name))
                 THEN [parent |-> parent, idx |-> NoIndex, exc |-> "TypeError"]
             ELSE [parent |->
                      [vars |-> NmlSet(parent.vars, v_name,
                                   Resize(NmlGet(parent.vars, v_name),
                                          p_start, v_start)),
                       start_index |-> SetKey(parent.start_index,
                                              Lower(v_name), v_start)],
                   idx |-> NoIndex, exc |-> ""]
    ELSE [parent |-> parent, idx |-> NoIndex, exc |-> ""]

\* parse_variable from its start to the head of the loop of line 518:
\* [c, parent, patch, frame]
VarHead(c0, parent, patch) ==
    With(IF c0.token = "(" THEN ParseIndices(c0)
         ELSE [c |-> c0, bounds |-> <<>>], LAMBDA ix :
    With(IF ix.c.exc # ""
             THEN [parent |-> parent, idx |-> NoIndex, exc |-> ""]
         ELSE IF c0.token = "("
             THEN IndexedHead(parent, c0.prior, ix.bounds)
         ELSE PlainHead(parent, c0.prior), LAMBDA hd :
    With(IF c0.token = "(" THEN Advance(Raise(ix.c, hd.exc))
         ELSE Raise(ix.c, hd.exc), LAMBDA c1 :
    With(IF c1.exc # "" THEN c1
         ELSE IF c1.token = "%"
             THEN Raise(c1, "NotModelled: derived type")
         ELSE IF c1.token # "=" THEN Raise(c1, "AssertionError")
         ELSE Advance(c1), LAMBDA c2 :
    With(GrpPatchOf(patch, g_name), LAMBDA grp :
    With(c2.exc = "" /\ NmlHas(grp, c0.prior), LAMBDA patched :
        [c |-> c2,
         parent |-> hd.parent,
         patch |-> IF patched
                   THEN SetGrpPatch(patch, g_name, DelKey(grp, Lower(c0.prior)))
                   ELSE patch,
         frame |-> [NoFrame EXCEPT
                      !.v_name = c0.prior,
                      !.bounds = ix.bounds,
                      !.idx = hd.idx,
                      !.has_patch = patched,
                      !.patch_values =
                          IF patched THEN AsSeq(NmlGet(grp, c0.prior))
                          ELSE <<>>]]))))))

\* parse_value, lines 657-688, on the token before the current one: an
\* integer when int() takes it, else the string pystr returns
ParseValue(c) == IF IsIntTok(c.prior) THEN IntV(PyInt(c.prior)) ELSE StrV(c.prior)

\* the condition of the loop of lines 518-519
InValueList(c) ==
    \/ c.token \notin VarTrigger
    \/ (c.prior = "=" /\ c.token = "(")
    \/ (c.prior = "," /\ c.token = "(")

\* lines 560-580 where a skipped value keeps being written: patch_skip is
\* never passed
PatchAdvanceNoSkip(c, f) ==
    IF f.has_patch /\ Len(f.patch_values) > 0
    THEN IF f.p_idx < Len(f.patch_values) /\ c.token # ","
         THEN [c |-> UpdateTokens(c, TRUE,
                                  F90Repr(f.patch_values[f.p_idx + 1]), FALSE),
               p_idx |-> f.p_idx + 1]
         ELSE [c |-> UpdateTokens(c, TRUE, "", FALSE), p_idx |-> f.p_idx]
    ELSE [c |-> Advance(c), p_idx |-> f.p_idx]

\* lines 560-580: the step to the next token, which writes the current one,
\* the rendered patch value in its place, or nothing
PatchAdvance(c, f) ==
    IF f.has_patch /\ Len(f.patch_values) > 0
    THEN IF f.p_idx < Len(f.patch_values) /\ c.token # ","
         THEN [c |-> UpdateTokens(c, TRUE,
                                  F90Repr(f.patch_values[f.p_idx + 1]), FALSE),
               p_idx |-> f.p_idx + 1]
         ELSE [c |-> UpdateTokens(c, TRUE, "",
                                  f.p_idx >= Len(f.patch_values)),
               p_idx |-> f.p_idx]
    ELSE [c |-> Advance(c), p_idx |-> f.p_idx]

\* one pass of the loop of lines 518-580: [c, frame]
ValueIter(c0, f0) ==
    LET isRep == c0.token = "*"
        n1 == IF isRep THEN (IF IsIntTok(c0.prior) THEN PyInt(c0.prior) ELSE 0)
              ELSE IF f0.n_vals = 0 THEN 1 ELSE f0.n_vals
        r0 == [vals |-> f0.vals, idx |-> f0.idx, exc |-> ""]
    IN
    \* lines 522-527
    With(IF ~isRep THEN c0
         ELSE IF c0.prior = "(" THEN Raise(c0, "NotModelled: complex")
         ELSE IF ~IsIntTok(c0.prior) THEN Raise(c0, "AssertionError")
         ELSE Advance(c0), LAMBDA c1 :
    \* lines 529-551
    With(IF c1.exc # "" THEN c1
         ELSE IF c1.prior \in {"=", "%", ","} THEN c1
         ELSE IF c1.prior = "*"
             THEN (IF c1.token \notin GroupEnd THEN Advance(c1) ELSE c1)
         ELSE IF c1.prior = "(" THEN Raise(c1, "NotModelled: complex")
         ELSE c1, LAMBDA c2 :
    With(IF c2.exc # "" THEN r0
         ELSE IF c1.prior \in {"=", "%", ","}
             THEN IF c1.token \in {","} \cup GroupEnd
                     /\ ~(c1.prior = "," /\ c1.token \in GroupEnd)
                  THEN AppendValue(r0, None, n1)
                  ELSE r0
         ELSE AppendValue(r0,
                          IF c1.prior = "*"
                             /\ (c2.token = "="
                                 \/ (c2.token \in GroupEnd /\ c2.prior = "*"))
                          THEN None ELSE ParseValue(c2),
                          n1), LAMBDA r1 :
    With(Raise(c2, r1.exc), LAMBDA c3 :
    With(c3.exc = "" /\ c3.token \in GroupEnd \cup {"="}, LAMBDA brk :
    \* lines 556-580
    With(IF c3.exc # "" \/ brk THEN [c |-> c3, p_idx |-> f0.p_idx]
         ELSE PatchAdvance(c3, f0), LAMBDA adv :
        [c |-> adv.c,
         frame |-> [f0 EXCEPT !.vals = r1.vals, !.idx = r1.idx, !.n_vals = 1,
                              !.p_idx = adv.p_idx, !.brk = brk]]))))))

\* lines 582-588: the value parse_variable returns
VarResult(f) ==
    LET v_values == IF f.has_patch /\ Len(f.patch_values) > 0
                    THEN f.patch_values ELSE f.vals
    IN  IF ~f.idx.set THEN Delist(v_values) ELSE ListV(v_values)

\* readstream, lines 340-344: the value is merged into the group
StoreVariable(group, v_name, v_values) ==
    [group EXCEPT !.vars =
        NmlSet(@, v_name,
               IF NmlHas(@, v_name)
               THEN MergeValues(NmlGet(@, v_name), v_values)
               ELSE v_values)]

\* lines 354-358: the variables left in the group's patch are set in the
\* group ...
RECURSIVE SetRemaining(_, _)
SetRemaining(items, rest) ==
    IF rest = <<>> THEN items
    ELSE SetRemaining(NmlSet(items, Head(rest).k, Head(rest).v), Tail(rest))

\* a line written for the first of them only
RemainingLinesFirstOnly(rest) ==
    IF rest = <<>> THEN <<>>
    ELSE LET line == <<"    ">> \o VarString(Head(rest).k, Head(rest).v)
                        \o <<"\n">>
         IN  [i \in 1..Len(line) |-> Appended(line[i])]

\* ... and each is written as a line "    name = values"
RECURSIVE RemainingLines(_)
RemainingLines(rest) ==
    IF rest = <<>> THEN <<>>
    ELSE LET line == <<"    ">> \o VarString(Head(rest).k, Head(rest).v)
                        \o <<"\n">>
         IN  [i \in 1..Len(line) |-> Appended(line[i])]
                 \o RemainingLines(Tail(rest))

\* lines 360-373: the group goes into nmls; a repeated name makes a list
\* of groups.  An entry is [k, is_list, groups].
NmlsPos(name) ==
    IF \E i \in 1..Len(nmls) : nmls[i].k = Lower(name)
    THEN CHOOSE i \in 1..Len(nmls) : nmls[i].k = Lower(name)
    ELSE 0

StoreGroup(name, group) ==
    IF NmlsPos(name) # 0
    THEN [nmls EXCEPT ![NmlsPos(name)] =
             [k |-> @.k, is_list |-> TRUE, groups |-> Append(@.groups, group)]]
    ELSE Append(nmls, [k |-> Lower(name), is_list |-> FALSE,
                       groups |-> <<group>>])

----------------------------------------------------------------------------
(* Parser.read and Parser.readstream, one action for each stretch of the
   code between two places where the loops come round. *)

SetCursor(c) ==
    /\ pos' = c.pos
    /\ token' = c.token
    /\ prior_token' = c.prior
    /\ out' = c.out

\* read, lines 228-229: an argument without a read method is a path
NmlIsPath == nml_fname # "stream"
PatchIsPath == patch_fname # "stream"

\* read, lines 261-263: if self.pfile and patch_is_path: self.pfile.close()
Closed(pf) == IF pf # "None" /\ PatchIsPath THEN "closed" ELSE pf

\* read returns nmls
Return(c) ==
    /\ SetCursor(c)
    /\ pc' = "done"
    /\ err' = ""
    /\ pfile' = Closed(pfile)

\* an exception leaves read
Fail(c) ==
    /\ SetCursor(c)
    /\ pc' = "error"
    /\ err' = c.exc
    /\ pfile' = Closed(pfile)

argVars == <<doc, src, nml_fname, patch_in, patch_fname, global_start_index,
             default_start_index, pass, out1, nmls1>>
inputVars == <<argVars, pfile_stream>>

\* read, lines 232-248: the errors raised before the output is opened
ReadArgError ==
    IF patch_in = <<>> THEN ""
    ELSE IF patch_fname = "None" /\ ~NmlIsPath
        THEN "ValueError: f90nml: error: No output file for patch."
    ELSE IF patch_fname = "same"
        THEN "ValueError: f90nml: error: Patch filepath cannot be the same as the original filepath."
    ELSE ""

\* read, lines 228-263, and readstream, lines 267-296: with a patch the
\* output is opened (a path, nml_fname + '~' for none) or taken (a stream);
\* the input is opened and lexed
Read ==
    /\ pc = "start"
    /\ IF ReadArgError # ""
       THEN /\ pc' = "error"
            /\ err' = ReadArgError
            /\ UNCHANGED <<pfile, pfile_stream, out, tokens, pos, nml_patch,
                           nmls>>
       ELSE /\ nml_patch' = patch_in
            /\ pfile_stream' = IF patch_in # <<>> THEN ~PatchIsPath
                                ELSE pfile_stream
            /\ out' = IF patch_in # <<>> THEN <<>> ELSE out
            /\ IF nml_fname = "missing"
               THEN /\ pc' = "error"
                    /\ err' = "FileNotFoundError"
                    /\ pfile' = Closed(IF patch_in # <<>> THEN "open" ELSE pfile)
                    /\ UNCHANGED <<tokens, pos, nmls>>
               ELSE /\ pfile' = IF patch_in # <<>> THEN "open" ELSE pfile
                    /\ tokens' = Lex(src)
                    /\ pos' = 0
                    /\ nmls' = <<>>
                    /\ pc' = "first"
                    /\ UNCHANGED err
    /\ UNCHANGED <<token, prior_token, g_name, g_vars, grp_patch0, pv>>
    /\ UNCHANGED argVars
    /\ UNCHANGED <<mergeVars, diffVars>>

\* readstream, lines 298-302: the first token; an empty file returns
FirstToken ==
    /\ pc = "first"
    /\ LET c == UpdateTokens(Cursor, FALSE, "", FALSE)
       IN  IF c.exc = "StopIteration" THEN Return(c)
           ELSE IF c.exc # "" THEN Fail(c)
           ELSE SetCursor(c) /\ pc' = "outside" /\ UNCHANGED <<err, pfile>>
    /\ UNCHANGED <<tokens, nml_patch, nmls, g_name, g_vars, grp_patch0, pv>>
    /\ UNCHANGED inputVars
    /\ UNCHANGED <<mergeVars, diffVars>>

\* lines 312-313: tokens outside of groups are passed over
RECURSIVE SkipOutside(_)
SkipOutside(c) ==
    IF c.exc # "" \/ c.token \in {"&", "$"} THEN c
    ELSE SkipOutside(Advance(c))

\* lines 305-320: past "end", on to the next "&" or "$" and to the group
\* name after it; [c, found].  The end of the tokens before a "&" or "$" is
\* found ends the loop (found is false); after it, it leaves read as any
\* other exception does
ToGroupName(c0) ==
    With(IF c0.token = "end" THEN Advance(c0) ELSE c0, LAMBDA c1 :
    With(SkipOutside(c1), LAMBDA c2 :
        IF c2.exc # "" THEN [c |-> c2, found |-> FALSE]
        ELSE [c |-> Advance(c2), found |-> TRUE]))

\* lines 305-326: up to the name of the next group
Outside ==
    /\ pc = "outside"
    /\ LET r == ToGroupName(Cursor)
       IN  IF ~r.found /\ r.c.exc = "StopIteration"
               THEN Return(r.c) /\ UNCHANGED <<g_name, g_vars, grp_patch0>>
           ELSE IF r.c.exc # ""
               THEN Fail(r.c) /\ UNCHANGED <<g_name, g_vars, grp_patch0>>
           ELSE /\ SetCursor(r.c)
                /\ g_name' = r.c.token
                /\ g_vars' = EmptyGroup
                /\ grp_patch0' = GrpPatchOf(nml_patch, r.c.token)
                /\ pc' = "group"
                /\ UNCHANGED <<err, pfile>>
    /\ UNCHANGED <<tokens, nml_patch, nmls, pv>>
    /\ UNCHANGED inputVars
    /\ UNCHANGED <<mergeVars, diffVars>>

\* lines 331-338: the next token, and the head of parse_variable when it
\* is one of "=", "(", "%"
GroupToken(c0) ==
    With(IF c0.token \notin VarTrigger THEN Advance(c0) ELSE c0, LAMBDA c1 :
        IF c1.exc # "" \/ c1.token \notin VarTrigger
        THEN [c |-> c1, isvar |-> FALSE, parent |-> g_vars,
              patch |-> nml_patch, frame |-> NoFrame]
        ELSE With(VarHead(c1, g_vars, nml_patch), LAMBDA h :
                 [c |-> h.c, isvar |-> TRUE, parent |-> h.parent,
                  patch |-> h.patch, frame |-> h.frame]))

\* lines 329-338 and parse_variable up to its loop (lines 387-515)
GroupStep ==
    /\ pc = "group"
    /\ LET h == GroupToken(Cursor)
       IN  IF h.c.exc # ""
               THEN Fail(h.c) /\ UNCHANGED <<g_vars, nml_patch, pv>>
           ELSE IF ~h.isvar
               THEN /\ SetCursor(h.c)
                    /\ pc' = "finalise"
                    /\ UNCHANGED <<g_vars, nml_patch, pv, err, pfile>>
           ELSE /\ SetCursor(h.c)
                /\ g_vars' = h.parent
                /\ nml_patch' = h.patch
                /\ pv' = h.frame
                /\ pc' = "values"
                /\ UNCHANGED <<err, pfile>>
    /\ UNCHANGED <<tokens, nmls, g_name, grp_patch0>>
    /\ UNCHANGED inputVars
    /\ UNCHANGED <<mergeVars, diffVars>>

\* parse_variable, lines 518-580: one pass of the loop over the values
ValueStep ==
    /\ pc = "values"
    /\ ~pv.brk
    /\ InValueList(Cursor)
    /\ LET r == ValueIter(Cursor, pv)
       IN  IF r.c.exc # ""
               THEN Fail(r.c) /\ UNCHANGED pv
           ELSE /\ SetCursor(r.c)
                /\ pv' = r.frame
                /\ UNCHANGED <<pc, err, pfile>>
    /\ UNCHANGED <<tokens, nml_patch, nmls, g_name, g_vars, grp_patch0>>
    /\ UNCHANGED inputVars
    /\ UNCHANGED <<mergeVars, diffVars>>

\* parse_variable, lines 582-588, and readstream, lines 340-348
VariableEnd ==
    /\ pc = "values"
    /\ (pv.brk \/ ~InValueList(Cursor))
    /\ g_vars' = StoreVariable(g_vars, pv.v_name, VarResult(pv))
    /\ pv' = NoFrame
    /\ pc' = "finalise"
    /\ UNCHANGED <<pfile, out, tokens, pos, token, prior_token, nml_patch,
                   nmls, g_name, grp_patch0, err>>
    /\ UNCHANGED inputVars
    /\ UNCHANGED <<mergeVars, diffVars>>

\* readstream, lines 350-376: at a group terminator the variables left in
\* the group's patch are written and the group is stored
Finalise ==
    /\ pc = "finalise"
    /\ LET rest == GrpPatchOf(nml_patch, g_name)
           c == IF rest = <<>> THEN Cursor
                ELSE IF pfile = "None" THEN Raise(Cursor, "AttributeError")
                ELSE WriteOut(Cursor, RemainingLines(rest))
       IN  IF token \notin GroupEnd
               THEN /\ pc' = "group"
                    /\ UNCHANGED <<pfile, out, pos, token, prior_token, nmls,
                                   g_name, g_vars, err>>
           ELSE IF c.exc # ""
               THEN /\ Fail(c)
                    /\ g_vars' = [g_vars EXCEPT
                                     !.vars = NmlSet(@, Head(rest).k, Head(rest).v)]
                    /\ UNCHANGED <<nmls, g_name>>
           ELSE /\ SetCursor(c)
                /\ nmls' = StoreGroup(g_name,
                               [g_vars EXCEPT !.vars = SetRemaining(@, rest)])
                /\ g_name' = NoToken
                /\ g_vars' = EmptyGroup
                /\ pc' = "after"
                /\ UNCHANGED <<err, pfile>>
    /\ UNCHANGED <<tokens, nml_patch, grp_patch0, pv>>
    /\ UNCHANGED inputVars
    /\ UNCHANGED <<mergeVars, diffVars>>

\* readstream, lines 378-383: the token after the group; the end of the
\* tokens ends the read
AfterGroup ==
    /\ pc = "after"
    /\ LET c == Advance(Cursor)
       IN  IF c.exc = "StopIteration" THEN Return(c)
           ELSE IF c.exc # "" THEN Fail(c)
           ELSE SetCursor(c) /\ pc' = "outside" /\ UNCHANGED <<err, pfile>>
    /\ UNCHANGED <<tokens, nml_patch, nmls, g_name, g_vars, grp_patch0, pv>>
    /\ UNCHANGED inputVars
    /\ UNCHANGED <<mergeVars, diffVars>>

\* the text of what was written
Texts(ps) == [i \in 1..Len(ps) |-> ps[i].s]

\* the caller patches the output of the first patch with the same patch:
\* f90nml.patch makes a new Parser for it (__init__.py, lines 102-104)
Repatch ==
    /\ pc = "done"
    /\ pass = 1
    /\ pfile = "closed"
    /\ pass' = 2
    /\ out1' = out
    /\ src' = Texts(out)
    /\ out' = <<>>
    /\ pfile' = "None"
    /\ pfile_stream' = FALSE
    /\ tokens' = <<>>
    /\ pos' = 0
    /\ token' = NoToken
    /\ prior_token' = NoToken
    /\ nml_patch' = <<>>
    /\ nmls' = <<>>
    /\ pc' = "start"
    /\ UNCHANGED <<doc, nml_fname, patch_in, patch_fname, global_start_index,
                   default_start_index, g_name, g_vars, grp_patch0, pv, err,
                   nmls1>>
    /\ UNCHANGED <<mergeVars, diffVars>>

\* the caller calls read again on the same Parser, without a patch and
\* without an output: pfile, token and prior_token are what the read before
\* left, the locals of readstream are new
ReadAgain ==
    /\ pc \in {"done", "error"}
    /\ pass = 1
    /\ pass' = 3
    /\ out1' = out
    /\ patch_in' = <<>>
    /\ patch_fname' = "None"
    /\ nml_fname' \in {"path", "stream"}
    /\ nml_patch' = <<>>
    /\ nmls' = <<>>
    /\ g_name' = NoToken
    /\ g_vars' = EmptyGroup
    /\ grp_patch0' = <<>>
    /\ pv' = NoFrame
    /\ pc' = "start"
    /\ err' = ""
    /\ UNCHANGED <<doc, src, global_start_index, default_start_index, pfile,
                   pfile_stream, out, tokens, pos, token, prior_token, nmls1>>
    /\ UNCHANGED <<mergeVars, diffVars>>

\* the caller reads, with a new Parser of the same configuration, the text
\* with every name written in lower case
Reread ==
    /\ pc \in {"done", "error"}
    /\ pass = 1
    /\ pass' = 4
    /\ nmls1' = [pc |-> pc, nmls |-> nmls]
    /\ src' = [i \in 1..Len(src) |-> Lower(src[i])]
    /\ pfile' = "None"
    /\ pfile_stream' = FALSE
    /\ out' = <<>>
    /\ tokens' = <<>>
    /\ pos' = 0
    /\ token' = NoToken
    /\ prior_token' = NoToken
    /\ nml_patch' = <<>>
    /\ nmls' = <<>>
    /\ g_name' = NoToken
    /\ g_vars' = EmptyGroup
    /\ grp_patch0' = <<>>
    /\ pv' = NoFrame
    /\ pc' = "start"
    /\ err' = ""
    /\ UNCHANGED <<doc, nml_fname, patch_in, patch_fname, global_start_index,
                   default_start_index, out1>>
    /\ UNCHANGED <<mergeVars, diffVars>>

NextRead ==
    \/ Read
    \/ FirstToken
    \/ Outside
    \/ GroupStep
    \/ ValueStep
    \/ VariableEnd
    \/ Finalise
    \/ AfterGroup

----------------------------------------------------------------------------
(* The documents read.  A document is a sequence of groups
   [name, stmts]; a statement is [name, idx, items, sep, trail, gap]: the
   tokens of its index (none without one), its value items
   [rep, val] ("" for no repeat factor and for a null value), the pieces
   between two items, whether a comma follows the last item, and the pieces
   after the statement. *)

RECURSIVE Flatten(_)
Flatten(ss) == IF ss = <<>> THEN <<>> ELSE Head(ss) \o Flatten(Tail(ss))

RenderItem(it) ==
    (IF it.rep # "" THEN <<it.rep, "*">> ELSE <<>>)
        \o (IF it.val # "" THEN <<it.val>> ELSE <<>>)

RECURSIVE RenderItems(_, _)
RenderItems(items, sep) ==
    IF items = <<>> THEN <<>>
    ELSE IF Len(items) = 1 THEN RenderItem(items[1])
    ELSE RenderItem(items[1]) \o sep \o RenderItems(Tail(items), sep)

RenderStmt(st) ==
    <<st.name>>
        \o (IF st.idx # <<>> THEN <<"(">> \o st.idx \o <<")">> ELSE <<>>)
        \o <<"=">>
        \o RenderItems(st.items, st.sep)
        \o (IF st.trail THEN <<",">> ELSE <<>>)
        \o st.gap

RenderGroup(g) ==
    <<"&", g.name, " ">>
        \o Flatten([i \in 1..Len(g.stmts) |-> RenderStmt(g.stmts[i])])
        \o <<"/", "\n">>

RenderDoc(d) == Flatten([i \in 1..Len(d) |-> RenderGroup(d[i])])

Val(t) == [rep |-> "", val |-> t]
Stmt(name, idx, items, sep, trail, gap) ==
    [name |-> name, idx |-> idx, items |-> items, sep |-> sep,
     trail |-> trail, gap |-> gap]
Simple(name, t) == Stmt(name, <<>>, <<Val(t)>>, <<",">>, FALSE, <<" ">>)

\* ---- documents that are patched ----

\* the value lists of the patched variable: 1, 2, ... ; a repeat factor
\* first; a null value in the middle
PatchItemLists ==
    { [i \in 1..n |-> Val(ToString(i))] : n \in 1..MaxVals }
        \cup { <<[rep |-> "2", val |-> "1"]>>,
               <<[rep |-> "2", val |-> "1"], Val("3")>>,
               <<Val("1"), Val(""), Val("3")>> }

PatchStmts ==
    { Stmt("x", <<>>, it, sp, tr, gp) :
        it \in PatchItemLists,
        sp \in {<<",">>, <<",", " ">>},
        tr \in BOOLEAN,
        gp \in {<<>>, <<" ">>, <<" ", "!c", "\n">>} }

SimpleStmts == {Simple("x", "5"), Simple("y", "4")}

\* a statement that another can follow: a comma or padding ends it
Separated(st) == st.trail \/ st.gap # <<>>

PatchDocs ==
    { <<[name |-> "a", stmts |-> <<st>>]>> : st \in PatchStmts }
        \cup { <<[name |-> "a", stmts |-> <<st, s2>>]>> :
                 st \in {t \in PatchStmts : Separated(t)},
                 s2 \in SimpleStmts }
        \cup { <<[name |-> "a", stmts |-> <<Simple("y", "4"), st>>]>> :
                 st \in PatchStmts }
        \cup { <<[name |-> "a", stmts |-> <<s1>>],
                 [name |-> n2, stmts |-> <<s2>>]>> :
                 s1 \in SimpleStmts, s2 \in SimpleStmts, n2 \in {"a", "b"} }
        \cup { <<[name |-> "a", stmts |-> <<>>]>>, <<>> }

PatchValues ==
    { IntV(9) } \cup
    { ListV([i \in 1..n |-> IntV(10 - i)]) : n \in 1..MaxPatchVals }

Patches ==
    { <<>>, <<Item("b", DictV(<<Item("x", IntV(9))>>))>> }
        \cup { <<Item("a", DictV(<<Item("x", v)>>))>> : v \in PatchValues }
        \cup { <<Item("a", DictV(<<Item("y", IntV(7))>>))>> }
        \cup { <<Item("a", DictV(<<Item("x", v), Item("y", IntV(7))>>))>> :
                 v \in PatchValues }

\* no read before this one
NoResult == [pc |-> "", nmls |-> <<>>]

\* no NamelistDiff object: a NamelistDiff has one label at least
NoDiff ==
    [unique |-> <<>>, equal |-> <<>>, different |-> <<>>, labels |-> <<>>,
     compared |-> <<>>]
\* no NamelistDiff takes part
DiffIdle ==
    /\ inputs = <<>> /\ given = <<>>
    /\ nml_diff = NoDiff /\ new_diff = NoDiff /\ d_exc = ""

\* a new Parser (__init__, lines 21-37) and the arguments of read
ParserNew ==
    /\ pfile = "None" /\ pfile_stream = FALSE
    /\ out = <<>> /\ tokens = <<>> /\ pos = 0
    /\ token = NoToken /\ prior_token = NoToken
    /\ nml_patch = <<>> /\ nmls = <<>> /\ g_name = NoToken
    /\ g_vars = EmptyGroup /\ grp_patch0 = <<>> /\ pv = NoFrame
    /\ pc = "start" /\ err = "" /\ pass = 1 /\ out1 = <<>>
    /\ nmls1 = NoResult
    /\ m_src = None /\ m_new = None /\ m_out = None
    /\ DiffIdle

InitPatch ==
    /\ doc \in PatchDocs
    /\ src = RenderDoc(doc)
    /\ patch_in \in Patches
    /\ global_start_index = None
    /\ default_start_index = 1
    /\ ParserNew
    /\ nml_fname = "path" /\ patch_fname = "path"

NextPatch == NextRead \/ Repatch

SpecPatch == InitPatch /\ [][NextPatch]_vars

\* ---- documents of indexed assignments to one variable ----

\* the k-th statement's m-th value is the integer 10k + m
StampedVals(k, n) == [m \in 1..n |-> Val(ToString(10 * k + m))]
IndexStmt(k, sh) ==
    Stmt("v", sh.idx, StampedVals(k, sh.n), <<",">>, FALSE, <<" ">>)

\* v(i), v(i:i+1), v with one or two values
Shapes1D ==
    { [idx |-> <<ToString(i)>>, n |-> 1] : i \in 0..MaxIndex }
        \cup { [idx |-> <<ToString(i), ":", ToString(i + 1)>>, n |-> 2] :
                 i \in 1..2 }
        \cup { [idx |-> <<>>, n |-> n] : n \in 1..2 }

\* v(i,j)
Shapes2D ==
    { [idx |-> <<ToString(i), ",", ToString(j)>>, n |-> 1] :
        i \in 1..2, j \in 1..2 }

ShapeLists ==
    SeqsUpTo(Shapes1D, MaxStmts) \cup SeqsUpTo(Shapes2D, MaxStmts)

IndexDocs ==
    { <<[name |-> "a",
         stmts |-> [k \in 1..Len(shs) |-> IndexStmt(k, shs[k])]]>> :
        shs \in ShapeLists \ {<<>>} }

InitIndex ==
    /\ doc \in IndexDocs
    /\ src = RenderDoc(doc)
    /\ patch_in = <<>>
    /\ global_start_index \in {None, IntV(1), IntV(2)}
    /\ default_start_index = 1
    /\ ParserNew
    /\ nml_fname = "path" /\ patch_fname = "None"

SpecIndex == InitIndex /\ [][NextRead]_vars

\* ---- documents of one assignment with an index expression ----

\* the tokens index expressions are written from
IndexAlphabet == {"0", "1", ":", ",", "x", "("}

\* no two words side by side: they would be one token
NoWordPair(ts) == \A i \in 1..(Len(ts) - 1) : ~(IsWord(ts[i]) /\ IsWord(ts[i + 1]))

IndexTokenLists ==
    { ts \in SeqsUpTo(IndexAlphabet, MaxIndexTokens) : ts # <<>> /\ NoWordPair(ts) }

\* v(...)=11
IndexExprDocs ==
    { <<[name |-> "a",
         stmts |-> <<Stmt("v", ts, <<Val("11")>>, <<",">>, FALSE, <<" ">>)>>]>> :
        ts \in IndexTokenLists }

InitIndexExpr ==
    /\ doc \in IndexExprDocs
    /\ src = RenderDoc(doc)
    /\ patch_in = <<>>
    /\ global_start_index = None
    /\ default_start_index = 1
    /\ ParserNew
    /\ nml_fname = "path" /\ patch_fname = "None"

SpecIndexExpr == InitIndexExpr /\ [][NextRead]_vars

\* ---- documents of assignments to v, written v or V ----

CaseShapes1D ==
    { [idx |-> <<ToString(i)>>, n |-> 1] : i \in 1..MaxIndex }
        \cup { [idx |-> <<>>, n |-> n] : n \in 1..2 }
CaseShapeLists ==
    SeqsUpTo(CaseShapes1D, MaxCaseStmts) \cup SeqsUpTo(Shapes2D, MaxCaseStmts)

\* the k-th assignment, its variable written as name
CaseStmt(k, sh, name) ==
    Stmt(name, sh.idx, StampedVals(k, sh.n), <<",">>, FALSE, <<" ">>)

CaseDocs ==
    { <<[name |-> "a",
         stmts |-> [k \in 1..Len(shs) |-> CaseStmt(k, shs[k], names[k])]]>> :
        <<shs, names>> \in
            { sn \in (CaseShapeLists \ {<<>>}) \X SeqsUpTo({"v", "V"}, MaxCaseStmts) :
                Len(sn[1]) = Len(sn[2]) } }

InitCase ==
    /\ doc \in CaseDocs
    /\ src = RenderDoc(doc)
    /\ patch_in = <<>>
    /\ nml_fname = "path" /\ patch_fname = "None"
    /\ global_start_index \in {None, IntV(2)}
    /\ default_start_index = 1
    /\ ParserNew

NextCase == NextRead \/ Reread

SpecCase == InitCase /\ [][NextCase]_vars

\* ---- reads with the input and the output given as paths or streams ----

ReuseDocs ==
    { <<[name |-> "a", stmts |-> <<Simple("x", "5")>>]>>,
      <<[name |-> "a", stmts |-> <<Simple("x", "5"), Simple("y", "4")>>]>>,
      <<[name |-> "a",
         stmts |-> <<Stmt("v", <<"x">>, <<Val("11")>>, <<",">>, FALSE, <<" ">>)>>]>>,
      <<>> }

\* the text of a document, or the text up to some piece of it
TextsUpTo(d) == { SubSeq(RenderDoc(d), 1, k) : k \in 0..Len(RenderDoc(d)) }

ReusePatches ==
    { <<>>,
      <<Item("a", DictV(<<Item("x", IntV(9))>>))>>,
      <<Item("a", DictV(<<Item("y", IntV(7))>>))>> }

InitReuse ==
    /\ doc \in ReuseDocs
    /\ src \in TextsUpTo(doc)
    /\ patch_in \in ReusePatches
    /\ nml_fname \in {"path", "missing", "stream"}
    /\ patch_fname \in {"None", "path", "stream"}
                          \cup (IF NmlIsPath THEN {"same"} ELSE {})
    /\ global_start_index = None
    /\ default_start_index = 1
    /\ ParserNew

NextReuse == NextRead \/ ReadAgain

SpecReuse == InitReuse /\ [][NextReuse]_vars

\* ---- documents of one value list ----

\* the k-th item of a value list: the integer 10 + k, twice that integer
\* (2*v), two null values (2*), or a null value
ValueItems(k) ==
    { Val(ToString(10 + k)),
      [rep |-> "2", val |-> ToString(10 + k)],
      [rep |-> "2", val |-> ""],
      Val("") }

ValueItemLists ==
    UNION { { its \in [1..n -> UNION {ValueItems(k) : k \in 1..n}] :
                \A k \in 1..n : its[k] \in ValueItems(k) } : n \in 1..MaxItems }

ValueStmts ==
    { Stmt("x", <<>>, it, <<",">>, tr, gp) :
        it \in ValueItemLists, tr \in BOOLEAN, gp \in {<<>>, <<" ">>} }

\* x alone in the group, or followed by y=4
ValueDocs ==
    { <<[name |-> "a", stmts |-> <<st>>]>> : st \in ValueStmts }
        \cup { <<[name |-> "a", stmts |-> <<st, Simple("y", "4")>>]>> :
                 st \in {t \in ValueStmts : Separated(t)} }

\* the text of a group that ends with the terminator e
RenderGroupEnd(g, e) ==
    <<"&", g.name, " ">>
        \o Flatten([i \in 1..Len(g.stmts) |-> RenderStmt(g.stmts[i])])
        \o <<e, "\n">>

InitValues ==
    /\ doc \in ValueDocs
    /\ \E e \in GroupEnd : src = RenderGroupEnd(doc[1], e)
    /\ patch_in = <<>>
    /\ global_start_index = None
    /\ default_start_index = 1
    /\ ParserNew
    /\ nml_fname = "path" /\ patch_fname = "None"

SpecValues == InitValues /\ [][NextRead]_vars

----------------------------------------------------------------------------
(* merge_values called on its own: the arguments are drawn from the values
   the parser builds (scalars, unset, value lists, records, nested lists) *)

NotRun == [t |-> "notrun", n |-> 0, s |-> "", l |-> <<>>]

MergeElems ==
    { None, IntV(1), IntV(2),
      ListV(<<IntV(1)>>), ListV(<<None, IntV(2)>>),
      DictV(<<Item("x", IntV(1))>>),
      DictV(<<Item("x", None), Item("y", IntV(2))>>) }

MergeArgs ==
    { ListV(xs) : xs \in SeqsUpTo(MergeElems, MaxLen) }
        \cup { e \in MergeElems : ~IsList(e) }

\* no Parser takes part
ParserIdle ==
    /\ doc = <<>> /\ src = <<>> /\ patch_in = <<>>
    /\ nml_fname = "path" /\ patch_fname = "None"
    /\ global_start_index = None /\ default_start_index = 1
    /\ pfile = "None" /\ pfile_stream = FALSE
    /\ out = <<>> /\ tokens = <<>> /\ pos = 0
    /\ token = NoToken /\ prior_token = NoToken
    /\ nml_patch = <<>> /\ nmls = <<>> /\ g_name = NoToken
    /\ g_vars = EmptyGroup /\ grp_patch0 = <<>> /\ pv = NoFrame
    /\ pc = "idle" /\ err = "" /\ pass = 0 /\ out1 = <<>>
    /\ nmls1 = NoResult

InitMerge ==
    /\ m_src \in MergeArgs
    /\ m_new \in MergeArgs
    /\ m_out = NotRun
    /\ ParserIdle
    /\ DiffIdle

\* the call merge_values(src, new)
Merge ==
    /\ m_out = NotRun
    /\ m_out' = MergeValues(m_src, m_new)
    /\ UNCHANGED <<m_src, m_new>>
    /\ UNCHANGED parserVars
    /\ UNCHANGED diffVars

NextMerge == Merge

SpecMerge == InitMerge /\ [][NextMerge]_vars

----------------------------------------------------------------------------
(* NamelistDiff (diff.py) *)

\* A dict of a group is a function from the names of its variables.  A dict
\* of groups is a function from the names of its groups to cells: a cell is
\* the dict object of the group, either the one of the caller's ref-th dict
\* (ref > 0) or one that only the NamelistDiff holds (ref = 0, val).
\* unique, equal and different are OrderedDicts: sequences of items in
\* insertion order, whose values are dicts of groups.

\* {}
EmptyDict == <<>>
Shared(i) == [ref |-> i, val |-> EmptyDict]
Owned(d) == [ref |-> 0, val |-> d]

\* d[k] = x and del d[k]
Put(d, k, x) == [j \in DOMAIN d \cup {k} |-> IF j = k THEN x ELSE d[j]]
Del(d, k) == [j \in DOMAIN d \ {k} |-> d[j]]

\* the elements of a set, one after the other
RECURSIVE InSomeOrder(_)
InSomeOrder(S) ==
    IF S = {} THEN <<>>
    ELSE LET x == CHOOSE y \in S : TRUE
         IN  <<x>> \o InSomeOrder(S \ {x})

\* dict.copy() of the caller's i-th dict: a new dict of groups with the
\* caller's own group dicts
ShallowCopy(ins, i) == [g \in DOMAIN ins[i] |-> Shared(i)]

\* the state a call works on: the three sections of the object, the
\* caller's dicts, and input, the copy of the new dict that _diff is given
World(obj, ins, input) ==
    [unique |-> obj.unique, equal |-> obj.equal, different |-> obj.different,
     inputs |-> ins, input |-> input]

\* the dict of group g that a cell is
Content(w, cell, g) == IF cell.ref > 0 THEN w.inputs[cell.ref][g] ELSE cell.val

\* the dict of groups of section[key], and its dict of group g
Top(w, sec, key) == GetKey(w[sec], key)
SelfGroup(w, sec, key, g) == Content(w, Top(w, sec, key)[g], g)
InGroup(w, g) == Content(w, w.input[g], g)

\* the dict of group g of section[key] becomes d
SetSelfGroup(w, sec, key, g, d) ==
    LET cell == Top(w, sec, key)[g]
    IN  IF cell.ref > 0 THEN [w EXCEPT !.inputs[cell.ref][g] = d]
        ELSE [w EXCEPT ![sec] =
                 SetKey(@, key, Put(Top(w, sec, key), g, Owned(d)))]
\* the dict of group g of input becomes d
SetInGroup(w, g, d) ==
    LET cell == w.input[g]
    IN  IF cell.ref > 0 THEN [w EXCEPT !.inputs[cell.ref][g] = d]
        ELSE [w EXCEPT !.input[g] = Owned(d)]

\* _update_dict(section, [key, g, v], value), lines 167-177
UpdateDict(w, sec, key, g, v, value) ==
    LET w1 == IF HasKey(w[sec], key) THEN w
              ELSE [w EXCEPT ![sec] = SetKey(@, key, EmptyDict)]
        w2 == IF g \in DOMAIN Top(w1, sec, key) THEN w1
              ELSE [w1 EXCEPT ![sec] =
                       SetKey(@, key, Put(Top(w1, sec, key), g,
                                          Owned(EmptyDict)))]
    IN  SetSelfGroup(w2, sec, key, g, Put(SelfGroup(w2, sec, key, g), v, value))

\* _compare_values(self_val, ref_val, [path0, g, v]), lines 151-165
CompareValues(w, isdiff, self_val, ref_val, path0, g, v) ==
    IF isdiff
        THEN UpdateDict(w, "different", path0, g, v, Append(self_val, ref_val))
    ELSE IF self_val = ref_val
        THEN UpdateDict(w, "equal", path0, g, v, self_val)
    ELSE UpdateDict(w, "different", path0, g, v,
                    [i \in 1..(Len(path0) - 1) |-> self_val] \o <<ref_val>>)

\* _compare_dicts on the dicts of group g, lines 134 and 145-149: the
\* variables vs that both have are compared and deleted from both
RECURSIVE CompareVars(_, _, _, _, _, _, _)
CompareVars(w, sec, key, isdiff, path0, g, vs) ==
    IF vs = <<>> THEN w
    ELSE With(CompareValues(w, isdiff, SelfGroup(w, sec, key, g)[Head(vs)],
                            InGroup(w, g)[Head(vs)], path0, g, Head(vs)),
         LAMBDA w1 :
         With(SetSelfGroup(w1, sec, key, g,
                           Del(SelfGroup(w1, sec, key, g), Head(vs))),
         LAMBDA w2 :
         CompareVars(SetInGroup(w2, g, Del(InGroup(w2, g), Head(vs))),
                     sec, key, isdiff, path0, g, Tail(vs))))

\* lines 141-144: a group that is left empty is deleted from the dict of
\* groups it is in
DropEmpty(w, sec, key, g) ==
    LET w1 == IF DOMAIN SelfGroup(w, sec, key, g) # {} THEN w
              ELSE [w EXCEPT ![sec] = SetKey(@, key, Del(Top(w, sec, key), g))]
    IN  IF DOMAIN InGroup(w1, g) # {} THEN w1
        ELSE [w1 EXCEPT !.input = Del(@, g)]

\* _compare_dicts(section[key], input, [path0]), lines 129-149, over the
\* groups gs that both have
RECURSIVE CompareDicts(_, _, _, _, _, _)
CompareDicts(w, sec, key, isdiff, path0, gs) ==
    IF gs = <<>> THEN w
    ELSE With(CompareVars(w, sec, key, isdiff, path0, Head(gs),
                  InSomeOrder(DOMAIN SelfGroup(w, sec, key, Head(gs))
                                \cap DOMAIN InGroup(w, Head(gs)))),
         LAMBDA w1 :
         CompareDicts(DropEmpty(w1, sec, key, Head(gs)), sec, key, isdiff,
                      path0, Tail(gs)))

\* one of the loops of lines 103-113 over the items a section had when the
\* loop began; the key of unique is a label, the others are tuples
PathOf(sec, key, label) ==
    IF sec = "unique" THEN <<key, label>> ELSE Append(key, label)
RECURSIVE CompareSection(_, _, _, _, _)
CompareSection(w, sec, isdiff, label, items) ==
    IF items = <<>> THEN w
    ELSE CompareSection(
             CompareDicts(w, sec, Head(items).k, isdiff,
                          PathOf(sec, Head(items).k, label),
                          InSomeOrder(DOMAIN Top(w, sec, Head(items).k)
                                        \cap DOMAIN w.input)),
             sec, isdiff, label, Tail(items))

\* lines 120-124: the keys of a section whose dict of groups is empty are
\* deleted
IsNotEmpty(it) == DOMAIN it.v # {}
NonEmpty(section) == SelectSeq(section, IsNotEmpty)

\* _diff(input, label), lines 100-127
DiffInto(w, label) ==
    With(CompareSection(w, "unique", FALSE, label, w.unique), LAMBDA w1 :
    With(CompareSection(w1, "equal", FALSE, label, w1.equal), LAMBDA w2 :
    With(CompareSection(w2, "different", TRUE, label, w2.different),
    LAMBDA w3 :
        [w3 EXCEPT
            !.unique = NonEmpty(IF DOMAIN w3.input # {}
                                THEN SetKey(@, label, w3.input) ELSE @),
            !.equal = NonEmpty(@),
            !.different = NonEmpty(@)])))

\* NamelistDiff(input_nml, label), lines 15-36, of the caller's first dict
NewDiff(ins, label) ==
    [unique |-> <<Item(label, ShallowCopy(ins, 1))>>, equal |-> <<>>,
     different |-> <<>>, labels |-> <<label>>, compared |-> <<label>>]

\* copy(), lines 57-59: deepcopy gives the object its own group dicts
OwnGroups(ins, top) ==
    [g \in DOMAIN top |->
        IF top[g].ref > 0 THEN Owned(ins[top[g].ref][g]) ELSE top[g]]
OwnSection(ins, section) ==
    [i \in 1..Len(section) |->
        Item(section[i].k, OwnGroups(ins, section[i].v))]
DeepCopy(ins, obj) ==
    [obj EXCEPT !.unique = OwnSection(ins, @),
                !.equal = OwnSection(ins, @),
                !.different = OwnSection(ins, @)]

\* the object after _diff was called on it with a copy of the caller's
\* n-th dict, and the caller's dicts after it
AfterDiff(obj, w, label) ==
    [obj EXCEPT !.unique = w.unique, !.equal = w.equal,
                !.different = w.different,
                !.compared = Append(@, label)]

InSeq(x, xs) == \E i \in 1..Len(xs) : xs[i] = x

\* diff(new_input, new_label, inplace), lines 61-98, with a dict that the
\* caller has not given before
Diff(new_input, new_label, inplace) ==
    /\ nml_diff # NoDiff
    /\ Len(inputs) < MaxInputs
    /\ given' = Append(given, [nml |-> new_input, label |-> new_label])
    /\ IF InSeq(new_label, nml_diff.labels)
           THEN /\ d_exc' = "ValueError"
                /\ inputs' = Append(inputs, new_input)
                /\ new_diff' = NoDiff
                /\ UNCHANGED nml_diff
       ELSE LET ins == Append(inputs, new_input)
                n == Len(ins)
                obj == IF inplace THEN nml_diff ELSE DeepCopy(ins, nml_diff)
                w == DiffInto(World(obj, ins, ShallowCopy(ins, n)), new_label)
            IN  /\ d_exc' = ""
                /\ inputs' = w.inputs
                /\ IF inplace
                       THEN /\ nml_diff' = AfterDiff(obj, w, new_label)
                            /\ new_diff' = NoDiff
                       ELSE /\ new_diff' = AfterDiff(obj, w, new_label)
                            /\ UNCHANGED nml_diff
    /\ UNCHANGED mergeVars
    /\ UNCHANGED parserVars

\* the caller goes on with the object that diff returned
Chain ==
    /\ new_diff # NoDiff
    /\ nml_diff' = new_diff
    /\ new_diff' = NoDiff
    /\ UNCHANGED <<inputs, given, d_exc>>
    /\ UNCHANGED mergeVars
    /\ UNCHANGED parserVars

\* ---- the dicts and labels given to a NamelistDiff ----

DiffLabels == {"a", "b"}
\* group g with x, y or both, or with none; group h
DiffGroupDicts ==
    { [v \in vs |-> IF v = "x" THEN x ELSE 1] :
        vs \in SUBSET {"x", "y"}, x \in 1..MaxDiffValue }
DiffDicts ==
    { [g \in {"g"} |-> d] : d \in DiffGroupDicts }
        \cup { [g \in {"g", "h"} |-> IF g = "g" THEN d ELSE [v \in {"x"} |-> 1]] :
                 d \in DiffGroupDicts }
        \cup { EmptyDict }

InitDiff ==
    /\ inputs \in { <<d>> : d \in DiffDicts }
    /\ given = <<[nml |-> inputs[1], label |-> "a"]>>
    /\ nml_diff = NewDiff(inputs, "a")
    /\ new_diff = NoDiff
    /\ d_exc = ""
    /\ ParserIdle
    /\ m_src = None /\ m_new = None /\ m_out = None

NextDiff ==
    \/ \E d \in DiffDicts, l \in DiffLabels, inplace \in BOOLEAN :
           Diff(d, l, inplace)
    \/ Chain

SpecDiff == InitDiff /\ [][NextDiff]_vars

----------------------------------------------------------------------------
(* Claims about patching *)

Least(S) == CHOOSE i \in S : \A j \in S : i <= j

\* a read with a patch has returned
Patched == pass = 1 /\ pc = "done" /\ pfile = "closed"

\* the first assignment to x in the tokens: its "=" ...
XEqs == {i \in 2..Len(tokens) : tokens[i] = "=" /\ tokens[i - 1] = "x"}
XEq == Least(XEqs)
\* ... the token after its value list: the group terminator, or the name of
\* the next variable ...
XStops == {j \in (XEq + 1)..Len(tokens) : tokens[j] \in GroupEnd \cup {"="}}
XEnd == IF tokens[Least(XStops)] = "=" THEN Least(XStops) - 1 ELSE Least(XStops)
\* ... and its literal value tokens: the words that are not repeat counts
XLiterals ==
    {k \in (XEq + 1)..(XEnd - 1) : IsWord(tokens[k]) /\ tokens[k + 1] # "*"}

\* the end of the first group
FirstEnd == Least({j \in 2..Len(tokens) : tokens[j] \in GroupEnd})

\* x is in the patch of group a and in the source group a, the first group
XPatched ==
    /\ doc # <<>>
    /\ doc[1].name = "a"
    /\ NmlHas(GrpPatchOf(patch_in, "a"), "x")
    /\ XEqs # {}
    /\ XEq < FirstEnd

XPatch == AsSeq(NmlGet(GrpPatchOf(patch_in, "a"), "x"))

\* what was written between the "=" of the assignment and the token after
\* its value list
OutAt(i) == Least({k \in 1..Len(out) : out[k].i = i})
OutFrom(i) == Least({k \in 1..Len(out) : out[k].i >= i})
IsRendered(p) == p.i = 0
XWritten == SubSeq(out, OutAt(XEq) + 1, OutFrom(XEnd) - 1)
XRendered == Texts(SelectSeq(XWritten, IsRendered))
XExpected ==
    [k \in 1..Min(Cardinality(XLiterals), Len(XPatch)) |-> F90Repr(XPatch[k])]

\* C1: when a read with a patch has returned, for a variable of the source
\* group that the patch has too, no literal value token of the source
\* assignment is in the output, and the values written in their place are
\* the rendered patch values, in order, one for each source literal until the
\* patch values are used up.
C1_PatchReplacesValues ==
    (Patched /\ XPatched) =>
        /\ \E k \in 1..Len(out) : out[k].i = XEq
        /\ \E k \in 1..Len(out) : out[k].i >= XEnd
        /\ \A k \in 1..Len(out) : out[k].i \notin XLiterals
        /\ XRendered = XExpected

\* the assignment x=2*1 patched with two values: the count is replaced and
\* the literal after "*" is written as it is
C1_Witness ==
    /\ Patched /\ XPatched
    /\ \E i \in XEqs : i + 3 <= Len(tokens) /\ tokens[i + 2] = "*"
    /\ Len(XPatch) = 2
    /\ \E k \in 1..Len(out) : out[k].i \in XLiterals

\* the padding tokens among the first n tokens, and the padding written
IsPaddingPiece(p) == IsPadding(p.s)
PaddingUpTo(n) == SelectSeq([i \in 1..n |-> Piece(i)], IsPaddingPiece)
IsSourcePadding(p) == p.i > 0 /\ IsPadding(tokens[p.i])
PaddingWritten == SelectSeq(out, IsSourcePadding)

\* C2: while a patch is written, the whitespace and comment tokens in the
\* output are the whitespace and comment tokens before the current token,
\* each once, unchanged and in source order; when the read has returned they
\* are all the whitespace and comment tokens of the source.
C2_PaddingPassesThrough ==
    /\ (pfile = "open" /\ pc \notin {"start", "first"}) =>
          PaddingWritten = PaddingUpTo(IF pos = Len(tokens) THEN pos ELSE pos - 1)
    /\ (pfile = "closed" /\ pc = "done") =>
          PaddingWritten = PaddingUpTo(Len(tokens))

\* a patch with fewer values than the source has returned: tokens were
\* skipped, and the source has a comment and whitespace after a comma
C2_Witness ==
    /\ Patched /\ XPatched
    /\ \E i \in 1..Len(tokens) : IsComment(tokens[i])
    /\ \E i \in 2..Len(tokens) : tokens[i] = " " /\ tokens[i - 1] = ","
    /\ Len(XPatch) < Cardinality(XLiterals)
    /\ \A k \in XLiterals : \A j \in 1..Len(out) : out[j].i # k
    /\ Len(PaddingWritten) >= 4

\* C3: a read with an empty patch and an output destination writes the text
\* it read.
C3_EmptyPatchIdentity ==
    (pass = 1 /\ pc = "done" /\ patch_in = <<>>) => Texts(out) = src

\* an empty patch and a document that is not empty
C3_Witness == pass = 1 /\ pc = "done" /\ patch_in = <<>> /\ src # <<>>

\* C4: patching the output of a patch with the same patch returns and writes
\* that output again.  The first output is one whose pieces are the tokens it
\* is read back as.
C4_PatchIdempotent ==
    (pass = 2 /\ pc \in {"done", "error"} /\ tokens = src) =>
        (pc = "done" /\ Texts(out) = Texts(out1))

\* the patch has more values for x than the source and a variable the source
\* has not; the second output differs from the first
C4_Witness ==
    /\ pass = 2 /\ pc = "done" /\ tokens = src
    /\ NmlHas(GrpPatchOf(patch_in, "a"), "x")
    /\ Len(XPatch) = 2
    /\ NmlHas(GrpPatchOf(patch_in, "a"), "y")
    /\ Texts(out) # Texts(out1)

\* the names assigned in the k-th group of the document
Occurring(k) == {Lower(doc[k].stmts[i].name) : i \in 1..Len(doc[k].stmts)}
\* the groups stored so far
RECURSIVE StoredFrom(_)
StoredFrom(es) ==
    IF es = <<>> THEN 0 ELSE Len(Head(es).groups) + StoredFrom(Tail(es))
Stored(ns) == StoredFrom(ns)
LastStored(ns, name) ==
    LET e == ns[CHOOSE i \in 1..Len(ns) : ns[i].k = Lower(name)]
    IN  e.groups[Len(e.groups)]
\* the variables of a group's patch, as it is when the group begins, that the
\* k-th source group does not assign
Missing(k) ==
    LET absent(it) == it.k \notin Occurring(k)
    IN  SelectSeq(grp_patch0, absent)

\* one line "    name = v1, v2, ..." for each, as pieces
AssignmentLines(rest) ==
    Flatten([k \in 1..Len(rest) |->
                <<"    ", rest[k].k, " ", "=", " ">>
                    \o ReprList(AsSeq(rest[k].v)) \o <<"\n">>])

\* C5: the step that closes a group in patch mode appends to the output one
\* rendered assignment line for each variable of the group's patch that the
\* source group does not assign, and nothing else; the terminator is not yet
\* written; the stored group has each of these variables with its patch
\* value.
C5_GroupCloseAppends ==
    [][(pass = 1 /\ pfile = "open" /\ pc = "finalise" /\ pc' = "after") =>
          /\ Len(out') >= Len(out)
          /\ SubSeq(out', 1, Len(out)) = out
          /\ Texts(SubSeq(out', Len(out) + 1, Len(out')))
                = AssignmentLines(Missing(Stored(nmls) + 1))
          /\ \A k \in 1..Len(out') : out'[k].i < pos
          /\ \A k \in 1..Len(Missing(Stored(nmls) + 1)) :
                LET it == Missing(Stored(nmls) + 1)[k]
                    g == LastStored(nmls', g_name)
                IN  NmlHas(g.vars, it.k) /\ NmlGet(g.vars, it.k) = it.v]_vars

\* a group that assigns x has closed under a patch with x and y: a line for
\* y is the last thing written, none for x
C5_Witness ==
    /\ pass = 1 /\ pfile = "open" /\ pc = "after"
    /\ doc # <<>> /\ "x" \in Occurring(1) /\ "y" \notin Occurring(1)
    /\ NmlHas(GrpPatchOf(patch_in, "a"), "x")
    /\ NmlHas(GrpPatchOf(patch_in, "a"), "y")
    /\ Stored(nmls) = 1
    /\ Len(out) >= 7
    /\ Texts(SubSeq(out, Len(out) - 6, Len(out)))
          = <<"    ", "y", " ", "=", " ", "7", "\n">>
    /\ \A k \in 1..Len(out) : out[k].i = -1 => out[k].s # "x"

----------------------------------------------------------------------------
(* Claims about indexed assignments *)

\* the assignments of the document's group; v(i) and v(i,j)
Stmts == doc[1].stmts
IsSingle(st) == Len(st.idx) = 1
IsPair(st) == Len(st.idx) = 3 /\ st.idx[2] = ","
Coord(st) ==
    IF IsSingle(st) THEN <<PyInt(st.idx[1])>>
    ELSE <<PyInt(st.idx[1]), PyInt(st.idx[3])>>
StmtVal(st) == IntV(PyInt(st.items[1].val))
AllSingle == \A k \in 1..Len(Stmts) : IsSingle(Stmts[k])
AllPairs == \A k \in 1..Len(Stmts) : IsPair(Stmts[k])
\* no later assignment is to the coordinate of the k-th
Last(k) == \A j \in (k + 1)..Len(Stmts) : Coord(Stmts[j]) # Coord(Stmts[k])

\* the group read and what it has for v
TheGroup == nmls[1].groups[1]
VValue == NmlGet(TheGroup.vars, "v")
VStart == GetKey(TheGroup.start_index, "v")

\* the element of a value at offsets given outermost list first
Absent == StrV("<absent>")
RECURSIVE ElemAtOffsets(_, _)
ElemAtOffsets(v, offs) ==
    IF offs = <<>> THEN v
    ELSE IF ~IsList(v) \/ offs[1] < 0 \/ offs[1] >= Len(v.l) THEN Absent
    ELSE ElemAtOffsets(v.l[offs[1] + 1], Tail(offs))

\* the element at a coordinate when the value is laid out from start: the
\* last dimension is the outermost list
ElemAtCoord(v, c, start) ==
    ElemAtOffsets(v, Reverse([d \in 1..Len(c) |-> c[d] - start[d]]))

\* every integer in a value
RECURSIVE Leaves(_)
LeavesOf(xs) == UNION {Leaves(xs[i]) : i \in 1..Len(xs)}
Leaves(v) == IF IsList(v) THEN LeavesOf(v.l) ELSE {v}

\* two assignments v(c1), v(c2) or v(c1,d1), v(c2,d2), the second lower than
\* the first in some dimension
LowerSecond ==
    /\ ~IsSet(global_start_index)
    /\ Len(Stmts) = 2
    /\ AllSingle \/ AllPairs
    /\ \E d \in 1..Len(Coord(Stmts[1])) :
          Coord(Stmts[2])[d] < Coord(Stmts[1])[d]

\* C6: after an indexed assignment with a lower start index in some
\* dimension than the one recorded, the read returns, the recorded start is
\* the lower one in each dimension, and the element stored before is still
\* in the value, at offset (coordinate - recorded start) in each dimension.
C6_LeftPadKeepsPositions ==
    (pc \in {"done", "error"} /\ LowerSecond) =>
        /\ pc = "done"
        /\ VStart = [d \in 1..Len(Coord(Stmts[1])) |->
                        IntV(Min(Coord(Stmts[1])[d], Coord(Stmts[2])[d]))]
        /\ StmtVal(Stmts[1]) \in Leaves(VValue)
        /\ ElemAtCoord(VValue, Coord(Stmts[1]),
                       [d \in 1..Len(VStart) |-> VStart[d].n])
              = StmtVal(Stmts[1])

\* v(2,1) and then v(1,2): the value of the first assignment is gone
C6_Witness ==
    /\ pc = "done" /\ LowerSecond /\ AllPairs
    /\ Coord(Stmts[1]) = <<2, 1>> /\ Coord(Stmts[2]) = <<1, 2>>
    /\ StmtVal(Stmts[1]) \notin Leaves(VValue)

Indices == {Coord(Stmts[k])[1] : k \in 1..Len(Stmts)}
MinIndex == CHOOSE i \in Indices : \A j \in Indices : i <= j
MaxIndexSeen == CHOOSE i \in Indices : \A j \in Indices : j <= i
\* the value last assigned at index i, unset when none was
AssignedAt(i) ==
    IF \E k \in 1..Len(Stmts) : Coord(Stmts[k]) = <<i>>
    THEN StmtVal(Stmts[CHOOSE k \in 1..Len(Stmts) :
                          Coord(Stmts[k]) = <<i>> /\ Last(k)])
    ELSE None

\* C7: with no global start index, a variable assigned only at single
\* indices v(i), in any order, is read as the list of length max - min + 1 of
\* the indices, with the value last assigned at index i at offset i - min and
\* unset everywhere else.
C7_SingleIndicesAnyOrder ==
    (pc \in {"done", "error"} /\ ~IsSet(global_start_index) /\ AllSingle) =>
        /\ pc = "done"
        /\ IsList(VValue)
        /\ VValue.l = [o \in 1..(MaxIndexSeen - MinIndex + 1) |->
                          AssignedAt(MinIndex + o - 1)]

\* v(3) and later v(1): a gap, and the lower index comes second
C7_Witness ==
    /\ pc = "done" /\ ~IsSet(global_start_index) /\ AllSingle
    /\ Len(Stmts) >= 2
    /\ Coord(Stmts[1]) = <<3>> /\ Coord(Stmts[2]) = <<1>>
    /\ Len(VValue.l) = 3 /\ VValue.l[2] = None

\* C8: with global_start_index g, the start recorded for a variable is g in
\* each dimension, and a variable assigned only at single indices has the
\* value last assigned at index i at offset i - g.
C8_GlobalStartIndex ==
    (pc = "done" /\ IsSet(global_start_index)) =>
        /\ HasKey(TheGroup.start_index, "v") =>
              \A d \in 1..Len(VStart) : VStart[d] = global_start_index
        /\ AllSingle =>
              \A k \in 1..Len(Stmts) :
                 Last(k) =>
                    ElemAtCoord(VValue, Coord(Stmts[k]),
                                <<global_start_index.n>>) = StmtVal(Stmts[k])

\* v(3) and then v without an index, with global_start_index 2: the start
\* recorded is 1
C8_Witness ==
    /\ pc = "done" /\ global_start_index = IntV(2)
    /\ Len(Stmts) = 2
    /\ Stmts[1].idx = <<"3">> /\ Stmts[2].idx = <<>>
    /\ VStart = <<IntV(1)>>

----------------------------------------------------------------------------
(* Claims about merge_values *)

AsList(v) == IF IsList(v) THEN v.l ELSE <<v>>
ElemAt(xs, i) == IF i <= Len(xs) THEN xs[i] ELSE None
Keys(items) == { items[i].k : i \in 1..Len(items) }

\* what the claim asks of a merged record: every key of either record, the
\* new record's value for a key only it has, the old one's for a key only it
\* has, and the two values merged for a key of both
RecordMerged(o, w, r) ==
    /\ IsDict(r)
    /\ Keys(r.l) = Keys(o.l) \cup Keys(w.l)
    /\ \A k \in Keys(r.l) :
          IF k \in Keys(o.l) /\ k \in Keys(w.l)
          THEN GetKey(r.l, k) = MergeValues(GetKey(o.l, k), GetKey(w.l, k))
          ELSE IF k \in Keys(w.l) THEN GetKey(r.l, k) = GetKey(w.l, k)
          ELSE GetKey(r.l, k) = GetKey(o.l, k)

\* what the claim asks of position i of the merged list r
PositionMerged(old, new, r, i) ==
    LET o == ElemAt(old, i)
        w == ElemAt(new, i)
    IN  IF IsDict(o) /\ IsDict(w) THEN RecordMerged(o, w, r[i])
        ELSE IF IsList(o) /\ IsList(w) THEN r[i] = MergeValues(o, w)
        ELSE IF w # None THEN r[i] = w
        ELSE r[i] = o

\* C9: merge_values on two lists (a scalar is a one-element list) returns a
\* list as long as the longer one; each position holds new's element when it
\* is set and old's element (unset when old has none) otherwise; records at
\* one position are merged key by key, nested lists by the same rule.
C9_MergeRule ==
    (m_out # NotRun /\ ~(IsDict(m_src) /\ IsDict(m_new))) =>
        LET old == AsList(m_src)
            new == AsList(m_new)
        IN  /\ IsList(m_out)
            /\ Len(m_out.l) = Max(Len(old), Len(new))
            /\ \A i \in 1..Len(m_out.l) : PositionMerged(old, new, m_out.l, i)

\* a merge that had to take an old element, a new element, a record pair and
\* a list pair, on lists of different lengths
C9_Witness ==
    /\ m_out # NotRun
    /\ IsList(m_src) /\ IsList(m_new)
    /\ Len(m_src.l) = 2 /\ Len(m_new.l) = 1
    /\ IsDict(m_src.l[1]) /\ IsDict(m_new.l[1])
    /\ m_src.l[2] = IntV(1)
    /\ m_out.l[2] = IntV(1)

\* no position is set in both lists
DisjointRanges(a, b) ==
    \A i \in 1..Max(Len(a), Len(b)) : ElemAt(a, i) = None \/ ElemAt(b, i) = None

\* C10: for two value lists in which no position is set in both,
\* merge_values(a, b) and merge_values(b, a) return equal values.
C10_MergeCommutes ==
    (m_out # NotRun /\ IsList(m_src) /\ IsList(m_new)
        /\ DisjointRanges(m_src.l, m_new.l)) =>
        m_out = MergeValues(m_new, m_src)

\* two lists of different lengths, each with a set element where the other
\* has none, have been merged
C10_Witness ==
    /\ m_out # NotRun
    /\ IsList(m_src) /\ IsList(m_new)
    /\ DisjointRanges(m_src.l, m_new.l)
    /\ Len(m_src.l) = 1 /\ Len(m_new.l) = 2
    /\ m_src.l[1] # None /\ m_new.l[2] # None

----------------------------------------------------------------------------
(* Claims about the values of a group *)

NoneIndexed == \A k \in 1..Len(Stmts) : Stmts[k].idx = <<>>
SomeIndexed == \E k \in 1..Len(Stmts) : Stmts[k].idx # <<>>
IsOneElementList(v) == IsList(v) /\ Len(v.l) = 1

\* C11: in the group returned, a variable no assignment wrote with an index
\* is not a one-element list, after one or several assignments to it; a
\* variable some assignment wrote with an index is a list.
C11_ScalarStaysScalar ==
    pc = "done" =>
        /\ NoneIndexed => ~IsOneElementList(VValue)
        /\ SomeIndexed => IsList(VValue)

\* v=11 and then v=21: the group has v as the list [21]
C11_Witness ==
    /\ pc = "done" /\ NoneIndexed
    /\ Len(Stmts) = 2
    /\ Len(Stmts[1].items) = 1 /\ Len(Stmts[2].items) = 1
    /\ VValue = ListV(<<IntV(21)>>)

----------------------------------------------------------------------------
(* Claims about value lists *)

\* the tokens that are not whitespace or comments
IsNoPadding(t) == ~IsPadding(t)
Plain == SelectSeq(tokens, IsNoPadding)
\* the first token after "x =" among them
XFirst ==
    1 + Least({i \in 2..Len(Plain) : Plain[i] = "=" /\ Plain[i - 1] = "x"})

\* the loop over the values of x has ended; pv.vals is v_values
XListRead == pc = "values" /\ pv.v_name = "x" /\ (pv.brk \/ ~InValueList(Cursor))

\* the elements the value list from the j-th plain token on stands for: a
\* word is a value, n * v is n times v, n * before a separator, a terminator
\* or the next variable is n unset elements, and a "," or terminator directly
\* after "=" or "," is one unset element
RECURSIVE ClaimedValues(_, _)
ClaimedValues(np, j) ==
    IF j > Len(np) THEN <<>>
    ELSE IF np[j] \in GroupEnd
        THEN IF np[j - 1] \in {"=", ","} THEN <<None>> ELSE <<>>
    ELSE IF np[j] = ","
        THEN (IF np[j - 1] \in {"=", ","} THEN <<None>> ELSE <<>>)
                 \o ClaimedValues(np, j + 1)
    ELSE IF np[j] = "*"
        THEN IF np[j + 1] \in {","} \cup GroupEnd
                 THEN Nones(PyInt(np[j - 1])) \o ClaimedValues(np, j + 1)
             ELSE IF np[j + 2] = "="
                 THEN Nones(PyInt(np[j - 1]))
             ELSE [i \in 1..PyInt(np[j - 1]) |-> IntV(PyInt(np[j + 1]))]
                      \o ClaimedValues(np, j + 2)
    ELSE IF np[j + 1] = "*" THEN ClaimedValues(np, j + 1)
    ELSE IF np[j + 1] = "=" THEN <<>>
    ELSE <<IntV(PyInt(np[j]))>> \o ClaimedValues(np, j + 1)

\* where the value list of x ends among the plain tokens: the terminator, or
\* the name of the next variable
XListEnd ==
    Least({j \in XFirst..Len(Plain) :
              Plain[j] \in GroupEnd \/ (j < Len(Plain) /\ Plain[j + 1] = "=")})
\* a "," or a terminator directly after "=" or ","
BareNullAt(j) ==
    Plain[j] \in {","} \cup GroupEnd /\ Plain[j - 1] \in {"=", ","}
HasBareNull == \E j \in XFirst..XListEnd : BareNullAt(j)
HasRepeat == \E j \in XFirst..XListEnd : Plain[j] = "*"

\* C12: in a value list where no "," or terminator comes directly after "="
\* or ",", every repeat factor n* stands for n elements: n times the value
\* after it, or n unset elements when a "," or a terminator is after it; the
\* other values are read as usual.
C12_RepeatFactor ==
    (XListRead /\ ~HasBareNull /\ HasRepeat) =>
        pv.vals = ClaimedValues(Plain, XFirst)

\* x=2*,12 has been read: the two elements of 2* are not unset
C12_Witness ==
    /\ XListRead
    /\ Plain[XFirst] = "2" /\ Plain[XFirst + 1] = "*" /\ Plain[XFirst + 2] = ","
    /\ Plain[XFirst + 3] = "12"
    /\ Len(pv.vals) = 3
    /\ pv.vals[1] # None /\ pv.vals[2] # None /\ pv.vals[3] = IntV(12)

\* C13: in a value list without repeat factors, the loop over the values
\* appends one unset element for each "," or terminator that comes directly
\* after "=" or ",", at its place among the values, and no other.
C13_BareNulls ==
    (XListRead /\ ~HasRepeat) => pv.vals = ClaimedValues(Plain, XFirst)

\* x=11,/ has been read: no unset element for the terminator after ","
C13_Witness ==
    /\ XListRead
    /\ Plain[XFirst] = "11" /\ Plain[XFirst + 1] = "," /\ Plain[XFirst + 2] = "/"
    /\ pv.vals = <<IntV(11)>>

----------------------------------------------------------------------------
(* Claims about index expressions *)

\* parse_variable has read "( i ) =" and is at the first value: pv.bounds
\* is what parse_indices returned for "(i)"
SingleIndexRead ==
    /\ pc = "values" /\ pv.n_vals = 0
    /\ pos >= 5
    /\ tokens[pos - 1] = "=" /\ tokens[pos - 2] = ")" /\ tokens[pos - 4] = "("
    /\ IsIntTok(tokens[pos - 3])
IndexWritten == PyInt(tokens[pos - 3])

\* C14: for a dimension written as the single integer i, parse_index returns
\* start i, end i + 1 and no stride, for i = 0 as for any other i.
C14_SingleIndexRange ==
    SingleIndexRead =>
        pv.bounds = <<[start |-> IntV(IndexWritten),
                       end |-> IntV(IndexWritten + 1),
                       stride |-> None]>>

\* v(0) has been read: the range has no end
C14_Witness ==
    /\ SingleIndexRead /\ IndexWritten = 0
    /\ pv.bounds = <<[start |-> IntV(0), end |-> None, stride |-> None]>>

\* the text of an exception "Type: message" is a ValueError's
IsValueError(e) == Len(e) >= 12 /\ SubSeq(e, 1, 12) = "ValueError: "
MessageOf(e) == SubSeq(e, 13, Len(e))
\* the word w is in the message m: set off by spaces or the ends of m
HasWord(m, w) ==
    \E i \in 1..(Len(m) - Len(w) + 1) :
        /\ SubSeq(m, i, i + Len(w) - 1) = w
        /\ i = 1 \/ SubSeq(m, i - 1, i - 1) = " "
        /\ i + Len(w) - 1 = Len(m) \/ SubSeq(m, i + Len(w), i + Len(w)) = " "

\* the variable of the one assignment of the document
IndexedName == doc[1].stmts[1].name
\* the read has failed with the ValueError parse_index raised
IndexErrorRaised == pc = "error" /\ IsValueError(err)

\* C15: the message of an error raised while an index expression is parsed
\* names the variable that is indexed, and says more than its name.
C15_IndexErrorNamesVariable ==
    IndexErrorRaised =>
        /\ HasWord(MessageOf(err), IndexedName)
        /\ Len(MessageOf(err)) > Len(IndexedName)

\* v(x): the error is the one int() raised for "x"
C15_Witness ==
    /\ IndexErrorRaised
    /\ doc[1].stmts[1].idx = <<"x">>
    /\ err = IntMsg("x")
    /\ ~HasWord(MessageOf(err), IndexedName)

----------------------------------------------------------------------------
(* Claims about the output of read *)

ReadOver == pc \in {"done", "error"}

\* C16: when read has returned or raised, the output file it opened for a
\* patch is closed, and an output stream the caller supplied is not closed.
C16_OutputReleased ==
    ReadOver =>
        /\ (pfile # "None" /\ ~pfile_stream) => pfile = "closed"
        /\ pfile_stream => pfile = "open"

\* a read without a patch, after a read that patched into the caller's
\* stream, has returned: the stream is closed
C16_Witness ==
    /\ pass = 3 /\ pc = "done"
    /\ pfile_stream /\ pfile = "closed"
    /\ nmls # <<>>

NoOutputGiven == patch_in # <<>> /\ patch_fname = "None"

\* C17: read with a patch that is not empty, no output destination and the
\* input given as a path raises the error of the missing output.
C17_NoOutputFails ==
    (pass = 1 /\ pc # "start" /\ NoOutputGiven /\ NmlIsPath) =>
        /\ pc = "error"
        /\ err = "ValueError: f90nml: error: No output file for patch."

\* the read has returned, its output written to a file
C17_Witness ==
    /\ pass = 1 /\ pc = "done"
    /\ NoOutputGiven /\ nml_fname = "path"
    /\ pfile = "closed" /\ ~pfile_stream
    /\ nmls # <<>> /\ out # <<>>

\* the text is a whole document that a new Parser reads without an error
Readable ==
    /\ src = RenderDoc(doc)
    /\ \A g \in 1..Len(doc) : \A k \in 1..Len(doc[g].stmts) :
          doc[g].stmts[k].idx = <<>>

\* C19: a read without a patch, on a Parser that has read before (with a
\* patch or without, to the end or to an error), returns for a text a new
\* Parser reads, and what the earlier read wrote to its output is as it was.
C19_NoPatchStateSurvives ==
    (pass = 3 /\ ReadOver /\ Readable) =>
        /\ pc = "done"
        /\ out = out1

\* after a read that patched into a file, the read without a patch fails:
\* it has written to the closed file
C19_Witness ==
    /\ pass = 3 /\ pc = "error" /\ Readable
    /\ err = "ValueError"
    /\ pfile = "closed" /\ ~pfile_stream
    /\ out1 # <<>>

----------------------------------------------------------------------------
(* Claims about the letter case of names *)

\* C18: the read of a document in which the variable is written v in some
\* assignments and V in others ends as the read of the same document with v
\* everywhere ends, and returns the same values and start indices.
C18_CaseInsensitiveNames ==
    (pass = 4 /\ ReadOver) =>
        /\ pc = nmls1.pc
        /\ pc = "done" => nmls = nmls1.nmls

\* v(2)=11 V=21 and v(2)=11 v=21 have been read, with different results
C18_Witness ==
    /\ pass = 4 /\ pc = "done" /\ nmls1.pc = "done"
    /\ ~IsSet(global_start_index)
    /\ Len(Stmts) = 2
    /\ Stmts[1].name = "v" /\ Stmts[1].idx = <<"2">>
    /\ Stmts[2].name = "V" /\ Stmts[2].idx = <<>>
    /\ nmls1.nmls[1].groups[1].start_index = <<Item("v", <<IntV(2)>>)>>
    /\ VStart = <<IntV(1)>>
    /\ nmls # nmls1.nmls

----------------------------------------------------------------------------
(* Claims about a patch with more values than the source *)

\* s is t with some elements left out
RECURSIVE IsSubSeq(_, _)
IsSubSeq(s, t) ==
    IF s = <<>> THEN TRUE
    ELSE IF t = <<>> THEN FALSE
    ELSE IF Head(s) = Head(t) THEN IsSubSeq(Tail(s), Tail(t))
    ELSE IsSubSeq(s, Tail(t))

\* what was written, other than source tokens, after the "=" of the
\* assignment to x and before the terminator of its group
IsNotSource(p) == p.i <= 0
XGroupWritten ==
    SelectSeq(SubSeq(out, OutAt(XEq) + 1, OutAt(FirstEnd) - 1), IsNotSource)

\* the value of x in the first group of the returned tree
XStored == NmlGet(nmls[1].groups[1].vars, "x")

\* the patch has more values for x than the source assignment has value
\* tokens
MorePatchValues ==
    Patched /\ XPatched /\ Len(XPatch) > Cardinality(XLiterals)

\* C20: when a read with a patch has returned and the patch has more values
\* for a variable than the source assignment has value tokens, the output
\* has the rendered text of each patch value of the variable, in order, among
\* what was written in place of or in addition to the source tokens before
\* the group terminator.
C20_ExtraPatchValuesWritten ==
    MorePatchValues =>
        IsSubSeq([k \in 1..Len(XPatch) |-> F90Repr(XPatch[k])],
                 Texts(XGroupWritten))

\* x = 1 patched with the two values 9 and 8: the returned tree has both,
\* and one rendered value was written before the group terminator
C20_Witness ==
    /\ MorePatchValues
    /\ Cardinality(XLiterals) = 1 /\ Len(XPatch) = 2
    /\ \A i \in 1..Len(tokens) : tokens[i] # "*"
    /\ AsSeq(XStored) = XPatch
    /\ Len(XGroupWritten) = 1

----------------------------------------------------------------------------
(* Claims about a group name that occurs more than once *)

\* a read with a patch has returned, of a document with two groups named a
TwiceA ==
    /\ Patched
    /\ Len(doc) = 2 /\ doc[1].name = "a" /\ doc[2].name = "a"

\* the terminators of the groups, in the tokens and in the output
Slashes == {j \in 1..Len(tokens) : tokens[j] = "/"}
GroupStop(g) == IF g = 1 THEN Least(Slashes) ELSE Least(Slashes \ {Least(Slashes)})
\* what was written for the g-th group, other than source tokens
GroupWritten(g) ==
    SelectSeq(SubSeq(out, IF g = 1 THEN 1 ELSE OutAt(GroupStop(1)) + 1,
                     OutAt(GroupStop(g)) - 1),
              IsNotSource)

\* the variables of the patch of group a and the first value of each
APatch == GrpPatchOf(patch_in, "a")
FirstRepr(name) == F90Repr(AsSeq(NmlGet(APatch, name))[1])
\* a value of the variable was written in place of a source value of the
\* g-th group; a line for the variable was appended to the g-th group
SubstitutedIn(name, g) ==
    \E j \in 1..Len(GroupWritten(g)) :
        GroupWritten(g)[j] = Rendered(FirstRepr(name))
AppendedIn(name, g) ==
    \E j \in 1..Len(GroupWritten(g)) : GroupWritten(g)[j] = Appended(name)
AppliedIn(name) ==
    {g \in 1..2 : SubstitutedIn(name, g) \/ AppendedIn(name, g)}

\* C21: when a read with a patch has returned, of a document with two groups
\* of the same name, each variable of the patch of that name was written for
\* at most one of the two groups, in place of a source value or as an
\* appended line.
C21_PatchAppliedOnce ==
    TwiceA =>
        \A k \in 1..Len(APatch) : Cardinality(AppliedIn(APatch[k].k)) <= 1

\* two groups that assign y, patched with x alone: a line for x was appended
\* to each of them and each stored group has x
C21_Witness ==
    /\ TwiceA
    /\ Occurring(1) = {"y"} /\ Occurring(2) = {"y"}
    /\ Len(APatch) = 1 /\ APatch[1].k = "x"
    /\ AppendedIn("x", 1) /\ AppendedIn("x", 2)
    /\ nmls[1].is_list
    /\ \A g \in 1..2 : NmlHas(nmls[1].groups[g].vars, "x")

----------------------------------------------------------------------------
(* Claims about NamelistDiff *)

\* C22: the dicts given to a NamelistDiff and to the calls of its diff, and
\* the group dicts in them, have the keys and values they had when they were
\* given.
C22_InputsNotMutated ==
    \A i \in 1..Len(inputs) : inputs[i] = given[i].nml

\* {g: {x: 1}} and {g: {x: 1}} were compared: each of the two dicts is now
\* {g: {}}, and x is in equal
C22_Witness ==
    /\ Len(inputs) = 2 /\ d_exc = ""
    /\ \A i \in 1..2 : given[i].nml = [g \in {"g"} |-> [v \in {"x"} |-> 1]]
    /\ \A i \in 1..2 : inputs[i] = [g \in {"g"} |-> EmptyDict]
    /\ \E o \in {nml_diff, new_diff} :
          /\ o.unique = <<>>
          /\ o.equal = <<Item(<<"a", "b">>,
                              [g \in {"g"} |-> Owned([v \in {"x"} |-> 1])])>>

\* the step is a call of diff
DiffCalled == Len(given') = Len(given) + 1
NewLabel == given'[Len(given')].label

\* C23: a call of diff with a label that the object has compared before,
\* at its construction or in a call of diff, raises ValueError and leaves
\* unique, equal and different of the object as they are.
C23_LabelsDistinct ==
    [][(DiffCalled /\ InSeq(NewLabel, nml_diff.compared)) =>
          /\ d_exc' = "ValueError"
          /\ nml_diff'.unique = nml_diff.unique
          /\ nml_diff'.equal = nml_diff.equal
          /\ nml_diff'.different = nml_diff.different]_vars

\* the object has compared two namelists under the label b
C23_Witness ==
    /\ d_exc = ""
    /\ nml_diff.compared = <<"a", "b", "b">>
    /\ nml_diff.labels = <<"a">>
    /\ HasKey(nml_diff.equal, <<"a", "b", "b">>)

====
